---- MODULE Spec2Model ----
(***************************************************************************)
(* A model of the alignment-and-integration core of ilamb3:                *)
(*   compare.py      trim_time, adjust_lon, nest_spatial_grids,            *)
(*                   is_spatially_aligned, pick_grid_aligned               *)
(*   dataset.py      get_time_extent, compute_cell_measures,               *)
(*                   coarsen_dataset                                       *)
(*   regions.py      the Regions registry, get_mask, restrict_variable     *)
(*   relationship.py Relationship.compute_limits / build_response /        *)
(*                   score_response                                        *)
(* Each family of operations has a specification of its own (SpecTime,     *)
(* SpecGrid, ...): Init draws the datasets the caller passes in from       *)
(* bounded sets, and each action is one call of the function, translated   *)
(* from its code.  Numbers are integers in a fixed unit stated with each   *)
(* family (days, 1/32 degree, millidegrees, ...).                          *)
(***************************************************************************)
EXTENDS Integers, Sequences, FiniteSets, TLC

VARIABLES
    pc,      \* "start" before the call under study, then the name of the call made
    dsa,     \* first dataset (or field) passed in by the caller (the caller's object)
    dsb,     \* second dataset passed in by the caller (the caller's object)
    ref,     \* pick_grid_aligned: the cached interpolated reference, or None;
             \* restrict_variable: the label argument
    com,     \* pick_grid_aligned: the cached interpolated comparison, or None
    outa,    \* first dataset returned by the call, or the outcome of a registry call
    outb,    \* second dataset returned by the call
    res,     \* coarsen_dataset: the target resolution
    regions, \* Regions._regions: label -> entry
    sources, \* Regions._sources: label -> source
    registered \* history: label -> its most recent registration

vars == <<pc, dsa, dsb, ref, com, outa, outb, res,
          regions, sources, registered>>

registry == <<regions, sources, registered>>

\* The arguments that only some calls take, at rest.
NoArgs == res = 0

\* Python's None, as a record so that it compares with datasets
None == [none |-> TRUE]

Abs(x) == IF x < 0 THEN -x ELSE x
Min2(x, y) == IF x <= y THEN x ELSE y
Max2(x, y) == IF x >= y THEN x ELSE y
SetMin(S) == CHOOSE x \in S : \A y \in S : x <= y
SetMax(S) == CHOOSE x \in S : \A y \in S : x >= y
Range(s) == {s[i] : i \in 1..Len(s)}

\* Strictly ascending sequences of length n over the integer set S.
RECURSIVE AscSeqs(_, _)
AscSeqs(S, n) ==
    IF n = 0 THEN {<<>>}
    ELSE UNION {{Append(s, x) : x \in {y \in S : Len(s) = 0 \/ y > s[Len(s)]}}
                : s \in AscSeqs(S, n - 1)}

\* ---------------------------------------------------------------------
\* The region registry of regions.py: the class attributes
\* Regions._regions and Regions._sources, two dictionaries keyed by label.
\* Angles are integers in units of 1/1000 degree.
\* ---------------------------------------------------------------------
MilliPerDegree == 1000

EmptyDict == [x \in {} |-> 0]

\* A dictionary write that keeps the value of a key already present.
PutIfAbsent(d, k, v) ==
    [x \in DOMAIN d \cup {k} |-> IF x \in DOMAIN d THEN d[x] ELSE v]

\* d[k] = v on a dictionary: inserts the key or overwrites its value.
Put(d, k, v) == [x \in DOMAIN d \cup {k} |-> IF x = k THEN v ELSE d[x]]

DefaultSource == "user-provided latlon bounds"

\* [rtype, name, lats, lons] of add_latlon_bounds
LatLonEntry(name, lats, lons) ==
    [rtype |-> 0, name |-> name, lats |-> lats, lons |-> lons]

\* Regions.add_latlon_bounds on the registry reg = [regions, sources];
\* raised is "" when the call returns.
add_latlon_bounds(reg, label, name, lats, lons, source) ==
    IF Len(lats) # 2 \/ Len(lons) # 2
    THEN [regions |-> reg.regions, sources |-> reg.sources,
          raised |-> "AssertionError"]
    ELSE [regions |-> Put(reg.regions, label, LatLonEntry(name, lats, lons)),
          sources |-> Put(reg.sources, label, source),
          raised |-> ""]

\* The calls made when the module is first imported.
SeedCalls ==
    LET ilamb == "ILAMB internal"
        gfed == "Global Fire Emissions Database (GFED)"
    IN << <<"global", "Globe", <<-89999, 89999>>, <<-179999, 179999>>, ilamb>>,
          <<"globe", "Global - All", <<-89999, 89999>>, <<-179999, 179999>>, ilamb>>,
          <<"bona", "Boreal North America", <<49750, 79750>>, <<-170250, -60250>>, gfed>>,
          <<"tena", "Temperate North America", <<30250, 49750>>, <<-125250, -66250>>, gfed>>,
          <<"ceam", "Central America", <<9750, 30250>>, <<-115250, -80250>>, gfed>>,
          <<"nhsa", "Northern Hemisphere South America", <<250, 12750>>, <<-80250, -50250>>, gfed>>,
          <<"shsa", "Southern Hemisphere South America", <<-59750, 250>>, <<-80250, -33250>>, gfed>>,
          <<"euro", "Europe", <<35250, 70250>>, <<-10250, 30250>>, gfed>>,
          <<"mide", "Middle East", <<20250, 40250>>, <<-10250, 60250>>, gfed>>,
          <<"nhaf", "Northern Hemisphere Africa", <<250, 20250>>, <<-20250, 45250>>, gfed>>,
          <<"shaf", "Southern Hemisphere Africa", <<-34750, 250>>, <<10250, 45250>>, gfed>>,
          <<"boas", "Boreal Asia", <<54750, 70250>>, <<30250, 179750>>, gfed>>,
          <<"ceas", "Central Asia", <<30250, 54750>>, <<30250, 142580>>, gfed>>,
          <<"seas", "Southeast Asia", <<5250, 30250>>, <<65250, 120250>>, gfed>>,
          <<"eqas", "Equatorial Asia", <<-10250, 10250>>, <<99750, 150250>>, gfed>>,
          <<"aust", "Australia", <<-41250, -10500>>, <<112000, 154000>>, gfed>> >>

\* The registry after the first k seeding calls.
RECURSIVE SeededRegistry(_)
SeededRegistry(k) ==
    IF k = 0 THEN [regions |-> EmptyDict, sources |-> EmptyDict, raised |-> ""]
    ELSE LET c == SeedCalls[k]
         IN  add_latlon_bounds(SeededRegistry(k - 1),
                               c[1], c[2], c[3], c[4], c[5])

\* What a registration records about a label: kind, name, geometry, source.
Registration(kind, name, geometry, source) ==
    [kind |-> kind, name |-> name, geometry |-> geometry, source |-> source]

\* The latest seeding call of every seeded label.
SeededRegistrations ==
    [l \in {SeedCalls[k][1] : k \in 1..Len(SeedCalls)} |->
        LET k == SetMax({i \in 1..Len(SeedCalls) : SeedCalls[i][1] = l})
            c == SeedCalls[k]
        IN  Registration(0, c[2], <<c[3], c[4]>>, c[5])]

\* The state of the registry once the package is imported; registered is
\* the history of the latest registration of every label.
Seeded ==
    /\ regions = SeededRegistry(Len(SeedCalls)).regions
    /\ sources = SeededRegistry(Len(SeedCalls)).sources
    /\ registered = SeededRegistrations

(***************************************************************************)
(* Temporal trim and range selection (compare.py trim_time, dataset.py     *)
(* get_time_extent and sel).  Unit: half days, so that the midpoint of a   *)
(* cell cut at a whole day is an integer; the datasets passed in have      *)
(* their times and bounds on whole days.                                   *)
(* A dataset is [hasTime, time, tb]: time is the ascending                 *)
(* time coordinate, tb the bound array named by time.attrs["bounds"]       *)
(* (one <<lo, hi>> pair per step, <<>> when the dataset has none).         *)
(***************************************************************************)
MaxTime == 6        \* time coordinates are drawn from day 0..MaxTime
MaxSteps == 2       \* a time axis has 1..MaxSteps steps
BoundHalfWidth == 1 \* half width of a generated time cell, in days

\* timedelta(days=1), the padding of the common window
Tol == 2

\* Day d in the unit of the time axis.
Day(d) == 2 * d

NoTimeDataset == [hasTime |-> FALSE, time |-> <<>>, tb |-> <<>>]

CenteredBounds(time) ==
    [i \in 1..Len(time) |->
        <<time[i] - Day(BoundHalfWidth), time[i] + Day(BoundHalfWidth)>>]

TimeDatasets ==
    {NoTimeDataset} \cup
    UNION {{[hasTime |-> TRUE, time |-> t, tb |-> <<>>],
            [hasTime |-> TRUE, time |-> t, tb |-> CenteredBounds(t)]}
           : t \in UNION {AscSeqs({Day(d) : d \in 0..MaxTime}, n)
                            : n \in 1..MaxSteps}}

\* get_time_extent: min and max of the bound array when present, else of time
get_time_extent(ds) ==
    LET vals == IF Len(ds.tb) > 0
                THEN UNION {{ds.tb[i][1], ds.tb[i][2]} : i \in 1..Len(ds.tb)}
                ELSE Range(ds.time)
    IN  <<SetMin(vals), SetMax(vals)>>

\* The indices kept by ds.sel(time=slice(lo, hi)) on an ascending index:
\* label slicing is inclusive at both ends, and empty when lo > hi.
SliceIdx(time, lo, hi) == {i \in 1..Len(time) : lo <= time[i] /\ time[i] <= hi}

SelectSeq2(s, keep) ==
    LET F[i \in 0..Len(s)] ==
            IF i = 0 THEN <<>>
            ELSE IF i \in keep THEN Append(F[i - 1], s[i]) ELSE F[i - 1]
    IN  F[Len(s)]

SelTime(ds, lo, hi) ==
    LET keep == SliceIdx(ds.time, lo, hi)
    IN  [ds EXCEPT !.time = SelectSeq2(ds.time, keep),
                   !.tb = SelectSeq2(ds.tb, keep)]

\* trim_time with the window taken from the earliest start (min for max)
trim_time_earliest_start(a, b) ==
    IF ~a.hasTime THEN <<a, b>>
    ELSE IF ~b.hasTime THEN <<a, b>>
    ELSE LET ea == get_time_extent(a)
             eb == get_time_extent(b)
             tm0 == Min2(ea[1], eb[1]) - Tol
             tmf == Min2(ea[2], eb[2]) + Tol
         IN  <<SelTime(a, tm0, tmf), SelTime(b, tm0, tmf)>>

\* trim_time: the pair returned
trim_time(a, b) ==
    IF ~a.hasTime THEN <<a, b>>
    ELSE IF ~b.hasTime THEN <<a, b>>
    ELSE LET ea == get_time_extent(a)
             eb == get_time_extent(b)
             tm0 == Max2(ea[1], eb[1]) - Tol
             tmf == Min2(ea[2], eb[2]) + Tol
         IN  <<SelTime(a, tm0, tmf), SelTime(b, tm0, tmf)>>

InitTime ==
    /\ Seeded
    /\ pc = "start"
    /\ dsa \in TimeDatasets
    /\ dsb \in TimeDatasets
    /\ ref = None
    /\ com = None
    /\ outa = None
    /\ outb = None
    /\ NoArgs

TrimTime ==
    /\ pc = "start"
    /\ LET r == trim_time(dsa, dsb)
       IN  /\ outa' = r[1]
           /\ outb' = r[2]
    /\ pc' = "trim_time"
    /\ UNCHANGED <<dsa, dsb, ref, com, res>>
    /\ UNCHANGED registry

\* _get_interval of sel: the cells whose bounds hold value, by position.
IntervalHits(tb, value) ==
    {i \in 1..Len(tb) : tb[i][1] <= value /\ value <= tb[i][2]}

\* _get_interval of sel: the second of two hits on the low side, else the
\* first; called once the assertions on the number of hits have passed.
get_interval(tb, value, side) ==
    LET ind == IntervalHits(tb, value)
    IN  IF Cardinality(ind) = 2 /\ side = "low" THEN SetMax(ind)
        ELSE SetMin(ind)

\* lo + 0.5 * (hi - lo) of a bound pair
CellMidpoint(b) == b[1] + (b[2] - b[1]) \div 2

\* The writes of sel through the slice lo..hi: the first low bound becomes
\* cmin and the last high bound cmax.
ClipBounds(tb, lo, hi, cmin, cmax) ==
    [i \in 1..Len(tb) |->
        <<IF i = lo THEN cmin ELSE tb[i][1],
          IF i = hi THEN cmax ELSE tb[i][2]>>]

\* The writes of sel into the coordinate of the slice lo..hi: its first
\* and last entries become the midpoints of their clipped cells.
ClipCoord(time, tb, lo, hi) ==
    [i \in 1..Len(time) |->
        IF i = hi THEN CellMidpoint(tb[hi])
        ELSE IF i = lo THEN CellMidpoint(tb[lo])
        ELSE time[i]]

\* sel(dset, "time", cmin, cmax) on an in-memory dataset: the outcome, the
\* dataset returned and the caller's dataset after the call.  isel with a
\* slice gives views, so the writes into the bound array of the selection
\* land in the caller's bound array; whether the array to_numpy() gives for
\* the coordinate shares the caller's memory is the array library's choice,
\* shared.
sel(ds, cmin, cmax, shared) ==
    LET fail(e) == [raised |-> e, out |-> None, caller |-> ds]
    IN  IF ~ds.hasTime THEN fail("KeyError")
        ELSE IF Len(ds.tb) = 0 THEN fail("NotImplementedError")
        ELSE IF Cardinality(IntervalHits(ds.tb, cmin)) \notin {1, 2}
        THEN fail("AssertionError")
        ELSE IF Cardinality(IntervalHits(ds.tb, cmax)) \notin {1, 2}
        THEN fail("AssertionError")
        ELSE LET lo == get_interval(ds.tb, cmin, "low")
                 hi == get_interval(ds.tb, cmax, "high")
                 tb == ClipBounds(ds.tb, lo, hi, cmin, cmax)
                 time == ClipCoord(ds.time, tb, lo, hi)
             IN  IF lo > hi THEN fail("IndexError")
                 ELSE [raised |-> "",
                       out |-> [hasTime |-> TRUE,
                                time |-> SubSeq(time, lo, hi),
                                tb |-> SubSeq(tb, lo, hi)],
                       caller |-> [ds EXCEPT
                                     !.tb = tb,
                                     !.time = IF shared THEN time ELSE ds.time]]

\* The range limits passed to sel, on whole days.
SelCuts == {Day(d) : d \in 1..3}

\* sel(dsa, "time", cmin, cmax)
Sel ==
    /\ pc = "start"
    /\ \E cmin \in SelCuts, cmax \in SelCuts, shared \in BOOLEAN :
          LET r == sel(dsa, cmin, cmax, shared)
          IN  /\ dsa' = r.caller
              /\ outa' = [raised |-> r.raised, out |-> r.out]
              /\ outb' = [cmin |-> cmin, cmax |-> cmax]
    /\ pc' = "sel"
    /\ UNCHANGED <<dsb, ref, com, res>>
    /\ UNCHANGED registry

NextTime ==
    \/ TrimTime
    \/ Sel

SpecTime == InitTime /\ [][NextTime]_vars

\* The two time extents share no instant.
ExtentsDisjoint(a, b) ==
    LET ea == get_time_extent(a)
        eb == get_time_extent(b)
    IN  ea[2] < eb[1] \/ eb[2] < ea[1]

\* The distance between the two (disjoint) extents.
ExtentGap(a, b) ==
    LET ea == get_time_extent(a)
        eb == get_time_extent(b)
    IN  Max2(eb[1] - ea[2], ea[1] - eb[2])

\* C1 (as stated): whenever both datasets have a time axis and their time
\* extents do not overlap, trim_time returns both with an empty time axis.
C1_DisjointGivesEmpty ==
    (pc = "trim_time" /\ dsa.hasTime /\ dsb.hasTime /\ ExtentsDisjoint(dsa, dsb))
        => (Len(outa.time) = 0 /\ Len(outb.time) = 0)

\* C1 (amended): whenever both datasets have a time axis and their time
\* extents are more than the one-day padding apart, trim_time returns both
\* with an empty time axis.
C1_GapBeyondPaddingGivesEmpty ==
    (pc = "trim_time" /\ dsa.hasTime /\ dsb.hasTime /\ ExtentGap(dsa, dsb) > Tol)
        => (Len(outa.time) = 0 /\ Len(outb.time) = 0)

\* C1 witness: a trim of two datasets, one with bounds, whose extents lie
\* more than the padding apart has emptied both time axes.
C1_Witness ==
    /\ pc = "trim_time" /\ dsa.hasTime /\ dsb.hasTime
    /\ Len(dsa.tb) > 0 /\ Len(dsb.tb) = 0
    /\ ExtentGap(dsa, dsb) > Tol
    /\ Len(outa.time) = 0 /\ Len(outb.time) = 0

(***************************************************************************)
(* Spatial grids (compare.py nest_spatial_grids, is_spatially_aligned,     *)
(* pick_grid_aligned).  Unit: 1/32 degree, so that 0.25 and 0.5 degree     *)
(* spacings, their half and quarter cells and the midpoints of the union   *)
(* breaks are all integers.  A dataset is [lat, latb, lon, lonb, val]:     *)
(* lat/lon are the ascending coordinates, latb/lonb the bound arrays named *)
(* by the coordinate's "bounds" attribute (<<>> when absent), and          *)
(* val[i][j] the value stored at cell (i, j).  A source dataset stores at  *)
(* each cell a value of its own, written <<i, j>>, so that a resampled     *)
(* dataset shows which source cell every value was taken from.             *)
(***************************************************************************)
UnitsPerDegree == 32

MaxN == 4           \* a generated latitude axis has 2..MaxN points

\* The missing value of a resampled cell: distinct from every stored value
NaN == <<>>

\* The ascending sequence of the elements of a finite set of integers.
RECURSIVE SortSet(_)
SortSet(S) ==
    IF S = {} THEN <<>>
    ELSE LET m == SetMin(S) IN <<m>> \o SortSet(S \ {m})

\* A uniformly spaced axis of n points from x0 with spacing d.
UniformAxis(x0, d, n) == [i \in 1..n |-> x0 + (i - 1) * d]

\* Bound arrays a source file may carry for a uniform axis of spacing d:
\* cells centred on the coordinate, or contiguous cells that hold the
\* coordinate a quarter cell above their lower edge.
CentredCells(x, d) == [i \in 1..Len(x) |-> <<x[i] - d \div 2, x[i] + d \div 2>>]
SkewedCells(x, d) == [i \in 1..Len(x) |-> <<x[i] - d \div 4, x[i] + (3 * d) \div 4>>]

AxisChoices(starts, spacings, sizes) ==
    UNION {{[x |-> UniformAxis(x0, d, n), b |-> <<>>],
            [x |-> UniformAxis(x0, d, n), b |-> CentredCells(UniformAxis(x0, d, n), d)],
            [x |-> UniformAxis(x0, d, n), b |-> SkewedCells(UniformAxis(x0, d, n), d)]}
           : <<x0, d, n>> \in starts \X spacings \X sizes}

\* 0.25 and 0.5 degree spacings
Spacings == {8, 16}

\* Latitude axes start at the centre of the first 0.25 or 0.5 degree cell
\* above the equator; the two longitude axes are a 0.25 degree axis without
\* bounds and a 0.5 degree axis with skewed cells.
LatAxes == AxisChoices({4, 8}, Spacings, 2..MaxN)
LonAxes == {[x |-> UniformAxis(4, 8, 2), b |-> <<>>],
            [x |-> UniformAxis(4, 16, 2), b |-> SkewedCells(UniformAxis(4, 16, 2), 16)]}

SourceValues(nlat, nlon) == [i \in 1..nlat |-> [j \in 1..nlon |-> <<i, j>>]]

GridDataset(la, lo) ==
    [lat |-> la.x, latb |-> la.b, lon |-> lo.x, lonb |-> lo.b,
     val |-> SourceValues(Len(la.x), Len(lo.x))]

GridDatasets == {GridDataset(la, lo) : <<la, lo>> \in LatAxes \X LonAxes}

\* cf_xarray add_bounds on an axis without bounds: cell i >= 2 is
\* x[i] -/+ (x[i] - x[i-1]) / 2, and cell 1 takes the width of cell 2.
AddBounds(x) ==
    [i \in 1..Len(x) |->
        LET d == IF i = 1 THEN x[2] - x[1] ELSE x[i] - x[i - 1]
        IN  <<x[i] - d \div 2, x[i] + d \div 2>>]

\* _return_breaks: the flattened bound array of one axis, explicit when the
\* dataset has it, else synthesized
ReturnBreaks(x, b) ==
    LET cells == IF Len(b) > 0 THEN b ELSE AddBounds(x)
    IN  UNION {{cells[i][1], cells[i][2]} : i \in 1..Len(cells)}

\* brk[:-1] alone: the lower break of each cell instead of its centroid
LowerBreaks(brk) == [i \in 1..(Len(brk) - 1) |-> brk[i]]

\* 0.5 * (brk[:-1] + brk[1:])
Midpoints(brk) == [i \in 1..(Len(brk) - 1) |-> (brk[i] + brk[i + 1]) \div 2]

\* The midpoints of the breaks of the first argument alone
NestedAxis_first_arg(xa, ba, xb, bb) ==
    Midpoints(SortSet(ReturnBreaks(xa, ba)))

\* The coordinates of the nested grid: midpoints of the sorted union
\* (np.union1d) of the breaks of all arguments.
NestedAxis(xa, ba, xb, bb) ==
    Midpoints(SortSet(ReturnBreaks(xa, ba) \cup ReturnBreaks(xb, bb)))

\* interp(method="nearest") along one axis: the index of the source
\* coordinate nearest to v (the lower one at a tie), 0 (fill with NaN) when
\* v lies outside the source coordinates.
NearestIdx(x, v) ==
    IF v < x[1] \/ v > x[Len(x)] THEN 0
    ELSE CHOOSE i \in 1..Len(x) :
            /\ \A k \in 1..Len(x) : Abs(x[i] - v) <= Abs(x[k] - v)
            /\ \A k \in 1..(i - 1) : Abs(x[k] - v) > Abs(x[i] - v)

\* One argument resampled to the nested grid.  The bound arrays named by
\* the coordinates are dropped from the result: resampled, they would no
\* longer be bounds of the new coordinates.
InterpNearest(ds, lat, lon) ==
    [lat |-> lat, latb |-> <<>>, lon |-> lon, lonb |-> <<>>,
     val |-> [i \in 1..Len(lat) |-> [j \in 1..Len(lon) |->
                LET si == NearestIdx(ds.lat, lat[i])
                    sj == NearestIdx(ds.lon, lon[j])
                IN  IF si = 0 \/ sj = 0 THEN NaN ELSE ds.val[si][sj]]]]

\* nest_spatial_grids(a, b): the list returned
nest_spatial_grids(a, b) ==
    LET lat == NestedAxis(a.lat, a.latb, b.lat, b.latb)
        lon == NestedAxis(a.lon, a.lonb, b.lon, b.lonb)
    IN  <<InterpNearest(a, lat, lon), InterpNearest(b, lat, lon)>>

\* np.allclose with every pair within 1e-5 degree, whatever its magnitude
np_allclose_absolute(u, x, y) ==
    \A i \in 1..Len(x) : Abs(x[i] - y[i]) <= u \div 100000

\* np.allclose(x, y) with its defaults rtol = 1e-5 and atol = 1e-8 degree,
\* in units of 1/u degree: |x - y| <= atol + rtol * |y| elementwise, that is
\* 1e8 * |x - y| <= u + 1000 * |y|; the product is split at 1e5 to stay
\* within 32 bits.
np_allclose(u, x, y) ==
    \A i \in 1..Len(x) :
        Abs(x[i] - y[i]) <= Abs(y[i]) \div 100000
                              + (u + 1000 * (Abs(y[i]) % 100000)) \div 100000000

\* np.allclose in the units of the grid family
AllClose(x, y) == np_allclose(UnitsPerDegree, x, y)

\* is_spatially_aligned on coordinates in units of 1/u degree
aligned_at(u, a, b) ==
    IF Len(a.lat) # Len(b.lat) THEN FALSE
    ELSE IF Len(a.lon) # Len(b.lon) THEN FALSE
    ELSE IF ~np_allclose(u, a.lat, b.lat) THEN FALSE
    ELSE IF ~np_allclose(u, a.lon, b.lon) THEN FALSE
    ELSE TRUE

\* is_spatially_aligned in the units of the grid family
is_spatially_aligned(a, b) == aligned_at(UnitsPerDegree, a, b)

\* pick_grid_aligned falling back to the raw pair instead of nesting it
pick_grid_at_no_nest(u, ref0, com0, r, c) ==
    IF aligned_at(u, ref0, com0) THEN <<ref0, com0>>
    ELSE IF r # None /\ c # None /\ aligned_at(u, r, c) THEN <<r, c>>
    ELSE <<ref0, com0>>

\* pick_grid_aligned on coordinates in units of 1/u degree
pick_grid_at(u, ref0, com0, r, c) ==
    IF aligned_at(u, ref0, com0) THEN <<ref0, com0>>
    ELSE IF r # None /\ c # None /\ aligned_at(u, r, c) THEN <<r, c>>
    ELSE nest_spatial_grids(ref0, com0)

\* pick_grid_aligned in the units of the grid family
pick_grid_aligned(ref0, com0, r, c) ==
    pick_grid_at(UnitsPerDegree, ref0, com0, r, c)

\* Interpolated pairs a caller may hold from an earlier call.
CachedDatasets ==
    {None,
     GridDataset([x |-> <<6, 10, 14>>, b |-> <<>>], [x |-> <<4, 12>>, b |-> <<>>]),
     GridDataset([x |-> <<6, 10>>, b |-> <<>>], [x |-> <<4, 12>>, b |-> <<>>])}

InitGrid ==
    /\ Seeded
    /\ pc = "start"
    /\ dsa \in GridDatasets
    /\ dsb \in GridDatasets
    /\ ref \in CachedDatasets
    /\ com \in CachedDatasets
    /\ outa = None
    /\ outb = None
    /\ NoArgs

Nest ==
    /\ pc = "start"
    /\ ref = None /\ com = None
    /\ LET r == nest_spatial_grids(dsa, dsb)
       IN  /\ outa' = r[1]
           /\ outb' = r[2]
    /\ pc' = "nest"
    /\ UNCHANGED <<dsa, dsb, ref, com, res>>
    /\ UNCHANGED registry

Pick ==
    /\ pc = "start"
    /\ LET r == pick_grid_aligned(dsa, dsb, ref, com)
       IN  /\ outa' = r[1]
           /\ outb' = r[2]
    /\ pc' = "pick"
    /\ UNCHANGED <<dsa, dsb, ref, com, res>>
    /\ UNCHANGED registry

NextGrid == Nest \/ Pick

SpecGrid == InitGrid /\ [][NextGrid]_vars

\* Same lat/lon coordinates, same sizes, same value at every cell.
SameField(x, y) == x.lat = y.lat /\ x.lon = y.lon /\ x.val = y.val

\* The cells of an axis tile it and hold their coordinate at their middle.
RegularCells(x, b) ==
    LET cells == IF Len(b) > 0 THEN b ELSE AddBounds(x)
    IN  /\ \A i \in 1..Len(x) : 2 * x[i] = cells[i][1] + cells[i][2]
        /\ \A i \in 1..(Len(x) - 1) : cells[i][2] = cells[i + 1][1]

RegularGrid(ds) == RegularCells(ds.lat, ds.latb) /\ RegularCells(ds.lon, ds.lonb)

SameBreaks(a, b) ==
    /\ ReturnBreaks(a.lat, a.latb) = ReturnBreaks(b.lat, b.latb)
    /\ ReturnBreaks(a.lon, a.lonb) = ReturnBreaks(b.lon, b.lonb)

\* C2 (as stated): whenever is_spatially_aligned(a, b) holds,
\* nest_spatial_grids(a, b) returns a and b with the same coordinates,
\* sizes and values.
C2_AlignedNestUnchanged ==
    (pc = "nest" /\ is_spatially_aligned(dsa, dsb))
        => (SameField(outa, dsa) /\ SameField(outb, dsb))

\* C2 (amended): whenever a and b are aligned, have the same cell breaks and
\* each coordinate is the midpoint of its cell in a contiguous tiling,
\* nest_spatial_grids(a, b) returns a and b with the same coordinates,
\* sizes and values.
C2_RegularAlignedNestUnchanged ==
    (pc = "nest" /\ is_spatially_aligned(dsa, dsb)
        /\ RegularGrid(dsa) /\ RegularGrid(dsb) /\ SameBreaks(dsa, dsb))
        => (SameField(outa, dsa) /\ SameField(outb, dsb))

\* C2 witness: two aligned regular datasets, one with explicit bounds and one
\* without, have been nested and came back unchanged.
C2_Witness ==
    /\ pc = "nest" /\ is_spatially_aligned(dsa, dsb)
    /\ RegularGrid(dsa) /\ RegularGrid(dsb) /\ SameBreaks(dsa, dsb)
    /\ Len(dsa.latb) > 0 /\ Len(dsb.latb) = 0 /\ Len(dsa.lat) = 3
    /\ SameField(outa, dsa) /\ SameField(outb, dsb)

(***************************************************************************)
(* Longitude convention (compare.py adjust_lon).  Unit: degrees.  A        *)
(* dataset is [lon, lonb, val]: lon the coordinate as stored, lonb the     *)
(* bound array named by lon.attrs["bounds"] (<<>> when absent), val[k] the *)
(* data at cell k, written as the position the cell had in the caller's    *)
(* dataset.                                                                *)
(***************************************************************************)
MaxLonN == 3        \* a longitude axis has 1..MaxLonN points

LonValues == {-180, -90, 0, 90, 180, 270, 360}

\* Cells of 90 degrees centred on the coordinate.
LonCells(x) == [i \in 1..Len(x) |-> <<x[i] - 45, x[i] + 45>>]

LonCoords == UNION {AscSeqs(LonValues, n) : n \in 1..MaxLonN}

LonDatasets ==
    UNION {{[lon |-> x, lonb |-> <<>>, val |-> [i \in 1..Len(x) |-> i]],
            [lon |-> x, lonb |-> LonCells(x), val |-> [i \in 1..Len(x) |-> i]]}
           : x \in LonCoords}

\* (lon.min() >= 0) * (lon.max() <= 360)
Is360(ds) == SetMin(Range(ds.lon)) >= 0 /\ SetMax(Range(ds.lon)) <= 360

\* x % 360, into [0, 360)
To360(x) == x % 360

\* (x + 180) % 360 without the final shift back
To180_no_shift(x) == (x + 180) % 360

\* (x + 180) % 360 - 180, into [-180, 180)
To180(x) == ((x + 180) % 360) - 180

\* The order sortby(lon) puts the cells in: ascending, stable.
SortOrder(x) ==
    LET Before(i, j) == x[i] < x[j] \/ (x[i] = x[j] /\ i < j)
    IN  [k \in 1..Len(x) |->
            CHOOSE i \in 1..Len(x) :
                Cardinality({j \in 1..Len(x) : Before(j, i)}) = k - 1]

SortByLon(ds) ==
    LET o == SortOrder(ds.lon)
    IN  [lon |-> [k \in 1..Len(o) |-> ds.lon[o[k]]],
         lonb |-> [k \in 1..Len(ds.lonb) |-> ds.lonb[o[k]]],
         val |-> [k \in 1..Len(o) |-> ds.val[o[k]]]]

\* dsb[lon] = f(dsb[lon]), f being % 360 (to360) or (x + 180) % 360 - 180, and, when the coordinate still names its bounds
\* after the assignment (keptAttrs), dsb[bounds] = f(dsb[bounds]): both are
\* item assignments on the caller's dataset.
RemapInPlace(ds, to360, keptAttrs) ==
    LET f(x) == IF to360 THEN To360(x) ELSE To180(x)
    IN  [ds EXCEPT !.lon = [i \in 1..Len(ds.lon) |-> f(ds.lon[i])],
                   !.lonb = IF keptAttrs
                            THEN [i \in 1..Len(ds.lonb) |->
                                    <<f(ds.lonb[i][1]), f(ds.lonb[i][2])>>]
                            ELSE ds.lonb]

\* adjust_lon: <<dsb as the caller sees it after the call, returned dsb>>.
\* Whether the remapped coordinate keeps its attributes (and with them the
\* name of its bound array) is the array library's choice, keptAttrs.
adjust_lon(a, b, keptAttrs) ==
    IF Is360(a) /\ ~Is360(b)
    THEN LET m == RemapInPlace(b, TRUE, keptAttrs) IN <<m, SortByLon(m)>>
    ELSE IF ~Is360(a) /\ Is360(b)
    THEN LET m == RemapInPlace(b, FALSE, keptAttrs) IN <<m, SortByLon(m)>>
    ELSE <<b, b>>

InitLon ==
    /\ Seeded
    /\ pc = "start"
    /\ dsa \in LonDatasets
    /\ dsb \in LonDatasets
    /\ ref = None
    /\ com = None
    /\ outa = None
    /\ outb = None
    /\ NoArgs

AdjustLon ==
    /\ pc = "start"
    /\ \E keptAttrs \in BOOLEAN :
          LET r == adjust_lon(dsa, dsb, keptAttrs)
          IN  /\ dsb' = r[1]
              /\ outb' = r[2]
    /\ outa' = dsa
    /\ pc' = "adjust_lon"
    /\ UNCHANGED <<dsa, ref, com, res>>
    /\ UNCHANGED registry

NextLon == AdjustLon

SpecLon == InitLon /\ [][NextLon]_vars

Within360(x) == \A i \in 1..Len(x) : 0 <= x[i] /\ x[i] <= 360
Within180(x) == \A i \in 1..Len(x) : -180 <= x[i] /\ x[i] < 180
InConvention(x) == Within360(x) \/ Within180(x)

\* Both fields use one convention.
SameConvention(x, y) ==
    (Within360(x) /\ Within360(y)) \/ (Within180(x) /\ Within180(y))

\* Every longitude of the returned field is congruent modulo 360 to the
\* longitude its cell had in the field passed in.
Congruent(before, after) ==
    /\ Len(after.lon) = Len(before.lon)
    /\ \A k \in 1..Len(after.lon) :
          (after.lon[k] - before.lon[after.val[k]]) % 360 = 0

\* C4 (as stated): for every pair of fields with a lon axis, adjust_lon
\* returns two fields in one longitude convention, and every longitude of
\* the returned b is congruent modulo 360 to its original value.
C4_AdjustLonConverges ==
    [][(pc = "start" /\ pc' = "adjust_lon")
        => (SameConvention(outa'.lon, outb'.lon) /\ Congruent(dsb, outb'))]_vars

\* C4 (amended): for every pair of fields whose longitudes each lie within
\* [0,360] or within [-180,180), adjust_lon returns two fields in one
\* longitude convention, and every longitude of the returned b is congruent
\* modulo 360 to its original value.
C4_AdjustLonConvergesInConvention ==
    [][(pc = "start" /\ pc' = "adjust_lon"
            /\ InConvention(dsa.lon) /\ InConvention(dsb.lon))
        => (SameConvention(outa'.lon, outb'.lon) /\ Congruent(dsb, outb'))]_vars

\* C4 witness: b in [0,360] with cells beyond 180 was remapped against an
\* a in [-180,180), re-sorted, and both are now within [-180,180).
C4_Witness ==
    /\ pc = "adjust_lon"
    /\ ~Is360(outa) /\ Within180(outa.lon)
    /\ outb.lon = <<-90, 0, 90>> /\ outb.val = <<3, 1, 2>>
    /\ Within180(outb.lon)

\* The coordinates ascend.
Ascending(x) == \A i \in 1..Len(x), j \in 1..Len(x) : i < j => x[i] <= x[j]

\* Every cell's bound pair holds its coordinate: lo <= value <= hi.
BoundsHold(ds) ==
    \A k \in 1..Len(ds.lonb) :
        ds.lonb[k][1] <= ds.lon[k] /\ ds.lon[k] <= ds.lonb[k][2]

\* C19: when adjust_lon remaps the second field and that field has a
\* longitude bound array, the longitudes of the returned field are sorted
\* ascending and every cell's bound pair still satisfies lo <= value <= hi,
\* the cells that straddle the wrap point included.
C19_BoundsStayValid ==
    [][(pc = "start" /\ pc' = "adjust_lon"
            /\ Is360(dsa) # Is360(dsb) /\ dsb.lonb # <<>>)
        => (Ascending(outb'.lon) /\ BoundsHold(outb'))]_vars


(***************************************************************************)
(* Cell measures and conservative coarsening (dataset.py                   *)
(* compute_cell_measures, coarsen_dataset).  Unit of lat/lon: half a       *)
(* degree.  A dataset is [lat, lon, val, cell_measures] with dimensions    *)
(* (time, lat, lon): val[t][i][j] is [nan, v], a NaN or the number v;      *)
(* cell_measures[i][j] is the measure variable of the dataset, <<>> when   *)
(* the dataset has none.  The datasets are uniformly spaced and carry no   *)
(* bound arrays, so measures come from the centroid path (lines 139-170).  *)
(* Measures are in units of earth_radius^2 * (pi / 180) / 2 * 1e-4, the    *)
(* constant factors of lines 157-160 left out.  A coarse value is kept as  *)
(* the exact quotient [nan, num, den] of the summed mass by the measure.   *)
(***************************************************************************)
MaxLatC == 5        \* a fine latitude axis has 3..MaxLatC points
MaxLonC == 4        \* a fine longitude axis has 3..MaxLonC points

\* Two time steps, so that a cell can be valid at one step only.
TimeSteps == {1, 2}

\* Spacing of the fine grids: 12 degrees.
FineSpacing == 24

\* round(1e4 * sin(x)) for x = -120, -117, ..., 120 degrees
SinTable ==
    <<-8660, -8910, -9135, -9336, -9511, -9659, -9781, -9877, -9945,
      -9986, -10000, -9986, -9945, -9877, -9781, -9659, -9511, -9336,
      -9135, -8910, -8660, -8387, -8090, -7771, -7431, -7071, -6691,
      -6293, -5878, -5446, -5000, -4540, -4067, -3584, -3090, -2588,
      -2079, -1564, -1045, -523, 0, 523, 1045, 1564, 2079,
      2588, 3090, 3584, 4067, 4540, 5000, 5446, 5878, 6293,
      6691, 7071, 7431, 7771, 8090, 8387, 8660, 8910, 9135,
      9336, 9511, 9659, 9781, 9877, 9945, 9986, 10000, 9986,
      9945, 9877, 9781, 9659, 9511, 9336, 9135, 8910, 8660>>

\* np.sin(u * pi / 180) for u in half degrees, a multiple of 3 degrees
SinE4(u) == SinTable[(u + 240) \div 6 + 1]

Num(v) == [nan |-> FALSE, v |-> v]
NaNValue == [nan |-> TRUE, v |-> 0]

RECURSIVE SumF(_, _)
SumF(f, S) ==
    IF S = {} THEN 0
    ELSE LET x == CHOOSE y \in S : TRUE IN f[x] + SumF(f, S \ {x})

\* The cells a source leaves without data: a block of rows and columns, at
\* the first time step or at both.
NaNBlocks(nlat, nlon) ==
    {{}} \cup
    {(q[1]..q[2]) \X (q[3]..q[4]) : q \in
        {q \in (1..nlat) \X (1..nlat) \X (1..nlon) \X (1..nlon) :
            q[1] <= q[2] /\ q[3] <= q[4]}}

\* The numbers a source holds: one constant everywhere, or values that
\* differ from cell to cell and step to step.
Patterns == {"const1", "const3", "varied"}

\* The constants of the constant patterns.
Constants == {1, 3}

PatternValue(pat, t, i, j) ==
    IF pat = "const1" THEN 1
    ELSE IF pat = "const3" THEN 3
    ELSE 1 + ((t + i + 2 * j) % 3)

\* Edges of the cells around centroids x (lines 143-156): midpoints between
\* neighbours, the outer edges half a spacing beyond the outer centroids.
LowerEdge(x, i) ==
    IF i = 1 THEN x[1] - (x[2] - x[1]) \div 2 ELSE (x[i - 1] + x[i]) \div 2

UpperEdge(x, i) ==
    IF i = Len(x) THEN x[i] + (x[i] - x[i - 1]) \div 2 ELSE (x[i] + x[i + 1]) \div 2

\* compute_cell_measures on the centroid path: |d sin(lat)| * |d lon|
compute_cell_measures(lat, lon) ==
    [i \in 1..Len(lat) |-> [j \in 1..Len(lon) |->
        Abs(SinE4(UpperEdge(lat, i)) - SinE4(LowerEdge(lat, i)))
            * Abs(UpperEdge(lon, j) - LowerEdge(lon, j))]]

\* Latitude of the first fine centroid: 18 degrees south.
FirstLat == -36

CoarsenDataset(nlat, nlon, pat, nans, nanTimes, cached) ==
    LET lat == UniformAxis(FirstLat, FineSpacing, nlat)
        lon == UniformAxis(12, FineSpacing, nlon)
    IN  [lat |-> lat, lon |-> lon,
         val |-> [t \in TimeSteps |-> [i \in 1..nlat |-> [j \in 1..nlon |->
                    IF <<i, j>> \in nans /\ t \in nanTimes
                    THEN NaNValue ELSE Num(PatternValue(pat, t, i, j))]]],
         cell_measures |-> IF cached THEN compute_cell_measures(lat, lon) ELSE <<>>]

\* What a source dataset is drawn from: its sizes, its numbers, its missing
\* cells and whether an earlier call left its measures in it.
CoarsenSizes == (3..MaxLatC) \X (3..MaxLonC)

\* Target resolutions: 18, 30 and 36 degrees, that is 1.5, 2.5 and 3 fine cells.
Resolutions == {36, 60, 72}

\* Python round(n / d) for n >= 0, d > 0: to nearest, halves to even.
RoundHalfEven(n, d) ==
    LET q == n \div d
        r == n % d
    IN  IF 2 * r < d THEN q
        ELSE IF 2 * r > d THEN q + 1
        ELSE IF q % 2 = 0 THEN q ELSE q + 1

\* fine_per_coarse (lines 189-191): res over the mean |lat spacing|
FinePerCoarse(ds, r) ==
    RoundHalfEven(r * (Len(ds.lat) - 1), Abs(ds.lat[Len(ds.lat)] - ds.lat[1]))

\* coarsen(boundary="trim"): the incomplete trailing window is dropped
NumWindows_trim(n, f) == n \div f

\* coarsen(boundary="pad"): the incomplete trailing window is kept
NumWindows(n, f) == (n + f - 1) \div f

\* The fine indices of coarse window k.
Window(k, n, f) == ((k - 1) * f + 1)..Min2(k * f, n)

\* coord_func of a window taken as its first coordinate
WindowFirst(x, k, f) == x[(k - 1) * f + 1]

\* coord_func="mean": the (nan)mean of the coordinates of window k
WindowMean(x, k, f) ==
    LET w == Window(k, Len(x), f) IN SumF(x, w) \div Cardinality(w)

CoarseAxis(x, f) == [k \in 1..NumWindows(Len(x), f) |-> WindowMean(x, k, f)]

\* The fine cells of coarse cell (I, J).
Tile(ds, f, I, J) == Window(I, Len(ds.lat), f) \X Window(J, Len(ds.lon), f)

\* The measures coarsen_dataset works with: the dataset's own, else computed.
FineMeasures(ds) ==
    IF ds.cell_measures # <<>> THEN ds.cell_measures
    ELSE compute_cell_measures(ds.lat, ds.lon)

\* nll of one coarse cell: how many of its fine cells are not null at some step
Nll(ds, f, I, J) ==
    Cardinality({c \in Tile(ds, f, I, J) : \E t \in TimeSteps : ~ds.val[t][c[1]][c[2]].nan})

\* (val * cell_measures).coarsen(...).sum() at one coarse cell: NaN skipped
TileMass(ds, f, t, I, J) ==
    LET msr == FineMeasures(ds)
        valid == {c \in Tile(ds, f, I, J) : ~ds.val[t][c[1]][c[2]].nan}
    IN  SumF([c \in valid |-> ds.val[t][c[1]][c[2]].v * msr[c[1]][c[2]]], valid)

\* coarsen_dataset fails: a window of 0 cells, or a coarse axis of a single
\* point, for which compute_cell_measures indexes lat[1] out of range
CoarsenFails(ds, r) ==
    LET f == FinePerCoarse(ds, r)
    IN  \/ f = 0
        \/ NumWindows(Len(ds.lat), f) < 2
        \/ NumWindows(Len(ds.lon), f) < 2

\* coarsen_dataset: the dataset returned
coarsen_dataset(ds, r) ==
    LET f == FinePerCoarse(ds, r)
        lat == CoarseAxis(ds.lat, f)
        lon == CoarseAxis(ds.lon, f)
        cm == compute_cell_measures(lat, lon)
    IN  [lat |-> lat, lon |-> lon,
         val |-> [t \in TimeSteps |-> [I \in 1..Len(lat) |-> [J \in 1..Len(lon) |->
                    IF Nll(ds, f, I, J) = 0
                    THEN [nan |-> TRUE, num |-> 0, den |-> 1]
                    ELSE [nan |-> FALSE, num |-> TileMass(ds, f, t, I, J),
                          den |-> cm[I][J]]]]],
         cell_measures |-> cm]

InitCoarsen ==
    /\ Seeded
    /\ pc = "start"
    /\ \E nn \in CoarsenSizes, pat \in Patterns, nanTimes \in {{1}, TimeSteps},
          cached \in BOOLEAN :
            \E nans \in NaNBlocks(nn[1], nn[2]) :
                dsa = CoarsenDataset(nn[1], nn[2], pat, nans, nanTimes, cached)
    /\ res \in Resolutions
    /\ dsb = None
    /\ ref = None
    /\ com = None
    /\ outa = None
    /\ outb = None

\* coarsen_dataset(dsa, res): line 198 stores the measures in the caller's
\* dataset before anything can fail; a failure leaves nothing returned.
Coarsen ==
    /\ pc = "start"
    /\ dsa' = [dsa EXCEPT !.cell_measures = FineMeasures(dsa)]
    /\ IF CoarsenFails(dsa, res)
       THEN /\ outa' = None
            /\ pc' = "coarsen_error"
       ELSE /\ outa' = coarsen_dataset(dsa, res)
            /\ pc' = "coarsen"
    /\ UNCHANGED <<dsb, ref, com, outb, res>>
    /\ UNCHANGED registry

NextCoarsen == Coarsen

SpecCoarsen == InitCoarsen /\ [][NextCoarsen]_vars

\* Every fine cell that holds a number holds c, at every step.
ConstantField(ds, c) ==
    \A t \in TimeSteps : \A i \in 1..Len(ds.lat) : \A j \in 1..Len(ds.lon) :
        ds.val[t][i][j].nan \/ ds.val[t][i][j].v = c

\* The coarse value at (t, I, J) is exactly c.
CoarseEquals(out, t, I, J, c) ==
    /\ ~out.val[t][I][J].nan
    /\ out.val[t][I][J].num = c * out.val[t][I][J].den

\* The fine cells of coarse cell (I, J) that hold a number at step t.
ValidAt(ds, f, t, I, J) == {c \in Tile(ds, f, I, J) : ~ds.val[t][c[1]][c[2]].nan}

\* The lat and lon sizes are multiples of the block factor: no padded tile.
Divisible(ds, f) == Len(ds.lat) % f = 0 /\ Len(ds.lon) % f = 0

CoarseCells(out) == TimeSteps \X (1..Len(out.lat)) \X (1..Len(out.lon))

\* C5 (as stated): for a field whose every valid fine cell has the same
\* value c, coarsen_dataset returns exactly c at every valid (non-NaN)
\* coarse cell, partially valid and padded tiles included.
C5_ConstantPreserved ==
    pc = "coarsen"
        => \A c \in Constants : ConstantField(dsa, c)
            => \A q \in CoarseCells(outa) :
                ~outa.val[q[1]][q[2]][q[3]].nan => CoarseEquals(outa, q[1], q[2], q[3], c)

\* C5 (amended): for a field on a uniformly spaced grid without bounds whose
\* sizes are multiples of the block factor and whose every valid fine cell
\* has the same value c > 0, coarsen_dataset returns exactly c at every
\* coarse cell whose fine cells are all valid, and a value below c at every
\* non-NaN coarse cell with a fine cell that is not valid.
C5_ConstantPreservedOnFullTiles ==
    (pc = "coarsen" /\ Divisible(dsa, FinePerCoarse(dsa, res)))
        => \A c \in Constants : ConstantField(dsa, c)
            => \A q \in CoarseCells(outa) :
                LET f == FinePerCoarse(dsa, res)
                    o == outa.val[q[1]][q[2]][q[3]]
                IN  /\ ValidAt(dsa, f, q[1], q[2], q[3]) = Tile(dsa, f, q[2], q[3])
                        => CoarseEquals(outa, q[1], q[2], q[3], c)
                    /\ (~o.nan /\ ValidAt(dsa, f, q[1], q[2], q[3]) # Tile(dsa, f, q[2], q[3]))
                        => o.num < c * o.den

\* C5 witness: a 4 x 4 field of constant 3 with one missing cell was
\* coarsened by 2: the coarse cell of the missing cell is below 3, another
\* coarse cell is exactly 3.
C5_Witness ==
    /\ pc = "coarsen" /\ ConstantField(dsa, 3)
    /\ Len(dsa.lat) = 4 /\ Len(dsa.lon) = 4 /\ FinePerCoarse(dsa, res) = 2
    /\ dsa.val[1][1][1].nan /\ ~dsa.val[1][1][2].nan
    /\ outa.val[1][1][1].num < 3 * outa.val[1][1][1].den
    /\ CoarseEquals(outa, 1, 2, 2, 3)

\* Sum over the valid fine cells at step t of value x fine measure.
FineIntegral(ds, t) ==
    LET msr == FineMeasures(ds)
        valid == {c \in (1..Len(ds.lat)) \X (1..Len(ds.lon)) : ~ds.val[t][c[1]][c[2]].nan}
    IN  SumF([c \in valid |-> ds.val[t][c[1]][c[2]].v * msr[c[1]][c[2]]], valid)

\* Sum over the non-NaN coarse cells at step t of the mass num that the
\* coarse value num / den carries.
CoarseMass(out, t) ==
    LET valid == {c \in (1..Len(out.lat)) \X (1..Len(out.lon)) : ~out.val[t][c[1]][c[2]].nan}
    IN  SumF([c \in valid |-> out.val[t][c[1]][c[2]].num], valid)

\* C6: for any field and block factor, divisible sizes or not, the coarse
\* values num / den have the coarse cell measure as den, so that coarse
\* value x coarse measure is num, and these sum to the sum over the valid
\* fine cells of fine value x fine measure, at every step.
C6_IntegralConserved ==
    pc = "coarsen"
        => /\ \A q \in CoarseCells(outa) :
                ~outa.val[q[1]][q[2]][q[3]].nan
                    => outa.val[q[1]][q[2]][q[3]].den = outa.cell_measures[q[2]][q[3]]
           /\ \A t \in TimeSteps : CoarseMass(outa, t) = FineIntegral(dsa, t)

\* C6 witness: a 3 x 3 field of varied values with missing cells was
\* coarsened by 2, both axes ending in a padded tile, and the integral at
\* step 1 is the same nonzero number before and after.
C6_Witness ==
    /\ pc = "coarsen" /\ FinePerCoarse(dsa, res) = 2
    /\ Len(dsa.lat) = 3 /\ Len(dsa.lon) = 3
    /\ dsa.val[1][1][1].nan /\ dsa.val[1][2][2].v = 2 /\ dsa.val[1][3][3].v = 2
    /\ CoarseMass(outa, 1) = FineIntegral(dsa, 1)
    /\ FineIntegral(dsa, 1) > 0

\* ---------------------------------------------------------------------
\* Regions.add_netcdf, Regions.get_mask and Regions.restrict_variable
\* ---------------------------------------------------------------------
\* Longest list of labels and of names in a region file.
MaxLabels == 2

RegionLabels == {"global", "u1"}
RegionNames == {"Globe", "N1"}

\* The integer array of a region file and its coordinates.
RegionIds == [lat |-> <<-45000, 45000>>, lon |-> <<-90000, 90000>>,
              val |-> <<<<0, 1>>, <<1, 0>>>>]

\* The variables of a region file that decide which array holds the ids.
NetcdfKinds == {"ids", "one2d", "no2d", "two2d"}

\* Sequences over S of length 1..n
RECURSIVE SeqsUpTo(_, _)
SeqsUpTo(S, n) ==
    IF n = 0 THEN {}
    ELSE LET shorter == SeqsUpTo(S, n - 1)
         IN  {<<x>> : x \in S} \cup shorter
                \cup {Append(s, x) : s \in shorter, x \in S}

\* The names listed by a region file, by the length of the list.
NameLists == {SubSeq(<<"N1", "Globe", "N1">>, 1, n) : n \in 1..MaxLabels}

\* The argument of add_netcdf: a dataset (path = <<>>) or the path of a file
\* holding it.  Files with an "ids" variable come with every list of labels;
\* the other kinds with one list.
NetcdfInputs ==
    [path : {<<>>, <<"data", "regions.nc">>},
     kind : {"ids"},
     labels : SeqsUpTo(RegionLabels, MaxLabels),
     names : NameLists]
    \cup
    [path : {<<>>},
     kind : NetcdfKinds \ {"ids"},
     labels : {<<"u1">>},
     names : {<<"N1">>}]

\* Whether the numpy of the build still has np.int; it only matters when a
\* two-dimensional variable is examined.
NumpyBuilds(kind) == IF kind \in {"one2d", "two2d"} THEN BOOLEAN ELSE {TRUE}

\* Outcome of choosing the ids array: "" or the exception raised.  np.int
\* is only evaluated for a two-dimensional variable, and only exists in
\* older numpy builds.
IdsError(kind, npHasInt) ==
    IF kind = "ids" THEN ""
    ELSE IF kind = "no2d" THEN "ValueError"
    ELSE IF ~npHasInt THEN "AttributeError"
    ELSE IF kind = "two2d" THEN "ValueError"
    ELSE ""

\* labels.index(label): zero-based position of the first occurrence
IndexOf(labels, label) ==
    SetMin({i \in 1..Len(labels) : labels[i] = label}) - 1

\* xr.where(dsr[ids] == labels.index(label), 1, 0)
RegionArray(ids, k) ==
    [lat |-> ids.lat, lon |-> ids.lon,
     val |-> [i \in 1..Len(ids.lat) |-> [j \in 1..Len(ids.lon) |->
                IF ids.val[i][j] = k THEN 1 ELSE 0]]]

\* [rtype, name, dar] of add_netcdf
NetcdfEntry(name, dar) == [rtype |-> 1, name |-> name, dar |-> dar]

\* os.path.basename of a path given by its components
Basename(path) == path[Len(path)]

NetcdfSource(netcdf) ==
    IF netcdf.path # <<>> THEN Basename(netcdf.path) ELSE "dataset"

\* zip(labels, names) stops at the shorter list
ZipLen(netcdf) == Min2(Len(netcdf.labels), Len(netcdf.names))

\* The registry after the first k turns of the loop of add_netcdf.
RECURSIVE RegisterPairs(_, _, _)
RegisterPairs(reg, netcdf, k) ==
    IF k = 0 THEN reg
    ELSE LET r == RegisterPairs(reg, netcdf, k - 1)
             label == netcdf.labels[k]
             dar == RegionArray(RegionIds, IndexOf(netcdf.labels, label))
         IN  [regions |-> Put(r.regions, label,
                              NetcdfEntry(netcdf.names[k], dar)),
              sources |-> Put(r.sources, label, NetcdfSource(netcdf)),
              raised |-> ""]

add_netcdf(reg, netcdf, npHasInt) ==
    LET err == IdsError(netcdf.kind, npHasInt)
    IN  IF err # ""
        THEN [regions |-> reg.regions, sources |-> reg.sources, raised |-> err]
        ELSE RegisterPairs([regions |-> reg.regions, sources |-> reg.sources,
                            raised |-> ""],
                           netcdf, ZipLen(netcdf))

\* The names that module ilamb3.dataset defines.
DatasetAttrs ==
    {"get_dim_name", "get_time_extent", "compute_time_measures",
     "compute_cell_measures", "coarsen_dataset", "integrate_time", "std_time",
     "integrate_space", "sel", "integrate_depth", "convert"}

\* Mask of a box region: True outside the closed box.
BoxMask(rdata, lat, lon) ==
    [i \in 1..Len(lat) |-> [j \in 1..Len(lon) |->
        ~(/\ lat[i] >= rdata.lats[1]
          /\ lat[i] <= rdata.lats[2]
          /\ lon[j] >= rdata.lons[1]
          /\ lon[j] <= rdata.lons[2])]]

\* Mask of an array region: True where the nearest cell of dar is 0; a
\* point outside the coordinates of dar interpolates to NaN, which is not 0.
ArrayMask(rdata, lat, lon) ==
    [i \in 1..Len(lat) |-> [j \in 1..Len(lon) |->
        LET si == NearestIdx(rdata.dar.lat, lat[i])
            sj == NearestIdx(rdata.dar.lon, lon[j])
        IN  si # 0 /\ sj # 0 /\ rdata.dar.val[si][sj] = 0]]

\* Regions.get_mask: the label is looked up first, then the coordinate
\* names through dset.get_latitude_name and dset.get_longitude_name.
get_mask(reg, label, var) ==
    IF label \notin DOMAIN reg
    THEN [raised |-> "KeyError", mask |-> <<>>]
    ELSE IF {"get_latitude_name", "get_longitude_name"} \subseteq DatasetAttrs
    THEN [raised |-> "",
          mask |-> IF reg[label].rtype = 0
                   THEN BoxMask(reg[label], var.lat, var.lon)
                   ELSE ArrayMask(reg[label], var.lat, var.lon)]
    ELSE [raised |-> "AttributeError", mask |-> <<>>]

\* Regions.restrict_variable: xr.where(mask, np.nan, var)
restrict_variable(reg, label, var) ==
    LET m == get_mask(reg, label, var)
    IN  IF m.raised # "" THEN [raised |-> m.raised, val |-> <<>>]
        ELSE [raised |-> "",
              val |-> [i \in 1..Len(var.lat) |-> [j \in 1..Len(var.lon) |->
                         IF m.mask[i][j] THEN NaNValue ELSE var.val[i][j]]]]

\* Arguments tried for add_latlon_bounds; the third lats has three entries
\* and fails the assertion on its length.
LatBoxes == {<<-89999, 89999>>, <<0, 10000>>, <<0, 10000, 20000>>}
LonBoxes == {<<-179999, 179999>>}
RegionSources == {DefaultSource, "ILAMB internal"}

\* Fields on a rectilinear grid, every cell valid: latitudes up to the
\* poles, longitudes in the -180..180 and in the 0..360 convention.
RegionFields ==
    {[lat |-> la, lon |-> lo,
      val |-> [i \in 1..Len(la) |-> [j \in 1..Len(lo) |-> Num(1)]]] :
        la \in {<<-90000, 0, 90000>>, <<-45000, 45000>>},
        lo \in {<<-180000, 0>>, <<90000, 270000>>}}

InitRegion ==
    /\ Seeded
    /\ pc = "start"
    /\ dsa = None
    /\ dsb = None
    /\ ref = None
    /\ com = None
    /\ outa = None
    /\ outb = None
    /\ NoArgs

\* r.add_latlon_bounds(label, name, lats, lons, source)
AddLatLonBounds ==
    \E label \in RegionLabels, name \in RegionNames, lats \in LatBoxes,
       lons \in LonBoxes, source \in RegionSources :
        LET r == add_latlon_bounds([regions |-> regions, sources |-> sources],
                                   label, name, lats, lons, source)
        IN  /\ regions' = r.regions
            /\ sources' = r.sources
            /\ registered' =
                 IF r.raised # "" THEN registered
                 ELSE [l \in DOMAIN registered \cup {label} |->
                         IF l = label
                         THEN Registration(0, name, <<lats, lons>>, source)
                         ELSE registered[l]]
            /\ pc' = IF r.raised = "" THEN "add_latlon_bounds"
                     ELSE "add_latlon_bounds_error"
            /\ dsa' = None
            /\ ref' = None
            /\ outa' = [raised |-> r.raised]
            /\ UNCHANGED <<dsb, com, outb, res>>

\* r.add_netcdf(netcdf)
AddNetcdf ==
    \E netcdf \in NetcdfInputs : \E npHasInt \in NumpyBuilds(netcdf.kind) :
        LET r == add_netcdf([regions |-> regions, sources |-> sources],
                            netcdf, npHasInt)
            n == ZipLen(netcdf)
            done == {netcdf.labels[k] : k \in 1..n}
        IN  /\ regions' = r.regions
            /\ sources' = r.sources
            /\ registered' =
                 IF r.raised # "" THEN registered
                 ELSE [l \in DOMAIN registered \cup done |->
                         IF l \in done
                         THEN LET k == SetMax({i \in 1..n :
                                                 netcdf.labels[i] = l})
                              IN  Registration(1, netcdf.names[k],
                                      RegionArray(RegionIds,
                                          IndexOf(netcdf.labels, l)),
                                      NetcdfSource(netcdf))
                         ELSE registered[l]]
            /\ pc' = IF r.raised = "" THEN "add_netcdf" ELSE "add_netcdf_error"
            /\ dsa' = None
            /\ ref' = None
            /\ outa' = IF r.raised = ""
                       THEN [raised |-> "", labels |-> netcdf.labels]
                       ELSE [raised |-> r.raised]
            /\ UNCHANGED <<dsb, com, outb, res>>

\* r.restrict_variable(label, var)
Restrict ==
    \E label \in RegionLabels \cup {"nonexistent"}, var \in RegionFields :
        /\ dsa' = var
        /\ ref' = [label |-> label]
        /\ outa' = restrict_variable(regions, label, var)
        /\ pc' = "restrict_variable"
        /\ UNCHANGED <<dsb, com, outb, res>>
        /\ UNCHANGED registry

NextRegion == AddLatLonBounds \/ AddNetcdf \/ Restrict

SpecRegion == InitRegion /\ [][NextRegion]_vars

\* The entry the seeding gives to "global".
SeededGlobal ==
    LatLonEntry("Globe", <<-89999, 89999>>, <<-179999, 179999>>)

\* C7: restricting a field to the seeded "global" region returns the field
\* unchanged: no exception, the same shape and no cell replaced by NaN.
C7_GlobalLeavesUnchanged ==
    (/\ pc = "restrict_variable"
     /\ ref.label = "global"
     /\ regions["global"] = SeededGlobal)
        => /\ outa.raised = ""
           /\ outa.val = dsa.val

Kind(entry) == entry.rtype
Geometry(entry) ==
    IF entry.rtype = 0 THEN <<entry.lats, entry.lons>> ELSE entry.dar

\* C8: after any sequence of add_latlon_bounds and add_netcdf calls every
\* label ever registered, seeded defaults included, is still in both
\* dictionaries, and its kind, name, geometry and source are those of its
\* most recent registration.
C8_RegistryPersistent ==
    \A l \in DOMAIN registered :
        /\ l \in DOMAIN regions
        /\ l \in DOMAIN sources
        /\ Kind(regions[l]) = registered[l].kind
        /\ regions[l].name = registered[l].name
        /\ Geometry(regions[l]) = registered[l].geometry
        /\ sources[l] = registered[l].source

\* A file has just re-registered the seeded "global" as an array region,
\* after add_latlon_bounds had added the new label "u1" and re-registered
\* it under another name; the seeded "bona" was never touched.
C8_Witness ==
    /\ pc = "add_netcdf"
    /\ "global" \in Range(outa.labels)
    /\ regions["global"].rtype = 1
    /\ "u1" \in DOMAIN regions
    /\ regions["u1"].rtype = 0
    /\ regions["u1"].name = "N1"
    /\ regions["u1"].lats = <<0, 10000>>
    /\ regions["bona"].name = "Boreal North America"
    /\ Cardinality(DOMAIN regions) = Len(SeedCalls) + 1

\* ---------------------------------------------------------------------
\* Relationship of analysis/relationship.py.  Samples are integers; limits
\* and bin edges are integers in units of 1/LimitScale, so that the padding
\* 1e-8 * (max - min) is the integer max - min.
\* ---------------------------------------------------------------------
\* Longest sample array of the first Relationship.
MaxSamples == 3

\* Values of its dependent samples.
DepValues == {0, 1}

LimitScale == 100000000

\* nbin and eps of build_response: the default eps and a large one.
NBin == 2
EpsChoices == {[num |-> 3, den |-> 1000], [num |-> 1, den |-> 2]}

\* Sequences over S of length exactly n
RECURSIVE SeqsOfLen(_, _)
SeqsOfLen(S, n) ==
    IF n = 0 THEN {<<>>}
    ELSE {Append(s, x) : s \in SeqsOfLen(S, n - 1), x \in S}

\* The object after __init__ and __post_init__ on finite samples that
\* share their coordinates: the derived fields are None.
Relationship(dep, ind, dep_log, ind_log) ==
    [dep |-> dep, ind |-> ind, dep_log |-> dep_log, ind_log |-> ind_log,
     dep_limits |-> None, ind_limits |-> None,
     dist2d |-> None, ind_edges |-> None, dep_edges |-> None,
     response_mean |-> None, response_std |-> None]

\* The assertions of __post_init__ on a log-scaled variable
PostInitOk(r) ==
    /\ r.dep_log => SetMin(Range(r.dep)) > 0
    /\ r.ind_log => SetMin(Range(r.ind)) > 0

\* Independent samples of the first Relationship, by length.
IndChoices == {SubSeq(<<0, 1, 0, 2>>, 1, n) : n \in 2..MaxSamples}
                \cup {SubSeq(<<0, 1, 2, 3>>, 1, n) : n \in 3..MaxSamples}

\* xr.align(join="exact"): dep and ind have the same coordinates.
FirstRelationships ==
    UNION {{Relationship(dep, ind, FALSE, FALSE) :
                dep \in SeqsOfLen(DepValues, Len(ind))} :
           ind \in IndChoices}

\* The second Relationship: samples inside, outside and equal to those of
\* the first, and one with a log-scaled independent variable.
SecondRelationships ==
    {Relationship(<<1, 1>>, <<0, 1>>, FALSE, FALSE),
     Relationship(<<0, 5>>, <<0, 5>>, FALSE, FALSE),
     Relationship(<<1, 2>>, <<1, 2>>, FALSE, TRUE)}

\* _singlelimit: [min, max] of var widened by 1e-8 of the range, merged
\* into limit when one is given.
singlelimit(var, limit) ==
    LET lo == SetMin(Range(var))
        hi == SetMax(Range(var))
        delta == hi - lo
        lim == [lo |-> lo * LimitScale - delta, hi |-> hi * LimitScale + delta]
    IN  IF limit = None THEN lim
        ELSE [lo |-> Min2(limit.lo, lim.lo), hi |-> Max2(limit.hi, lim.hi)]

\* self.compute_limits(rel): the pair <<self, rel>> after the call; rel is
\* None when the argument is left out.
compute_limits(self, rel) ==
    LET dep_lim0 == singlelimit(self.dep, None)
        ind_lim0 == singlelimit(self.ind, None)
        dep_lim == IF rel # None THEN singlelimit(self.dep, dep_lim0)
                   ELSE dep_lim0
        ind_lim == IF rel # None THEN singlelimit(self.ind, ind_lim0)
                   ELSE ind_lim0
    IN  << [self EXCEPT !.dep_limits = dep_lim, !.ind_limits = ind_lim],
           IF rel # None
           THEN [rel EXCEPT !.dep_limits = dep_lim, !.ind_limits = ind_lim]
           ELSE None >>

\* Outer edges of a histogram axis: an empty range is widened by 0.5 on
\* each side.
OuterEdges(lim) ==
    IF lim.lo = lim.hi
    THEN [lo |-> lim.lo - LimitScale \div 2, hi |-> lim.hi + LimitScale \div 2]
    ELSE lim

\* np.linspace(lo, hi, nbin + 1), every edge multiplied by nbin
Edges(lim, nbin) ==
    LET o == OuterEdges(lim)
    IN  [k \in 1..(nbin + 1) |-> o.lo * nbin + (k - 1) * (o.hi - o.lo)]

\* A sample in the units of Edges
Scaled(x, nbin) == x * LimitScale * nbin

\* np.digitize(x, edges): the number of edges at or below x
Digitize(x, edges, nbin) ==
    Cardinality({k \in 1..Len(edges) : edges[k] <= Scaled(x, nbin)})

\* np.digitize(ind, xedges).clip(1, xedges.size - 1) - 1, counted from 1
WhichBin(x, edges, nbin) == Min2(Max2(Digitize(x, edges, nbin), 1), nbin)

\* Bin of a sample in np.histogram2d: 0 outside the range, the last bin on
\* the upper edge.
HistBin(x, edges, nbin) ==
    IF Scaled(x, nbin) < edges[1] \/ Scaled(x, nbin) > edges[nbin + 1] THEN 0
    ELSE IF Scaled(x, nbin) = edges[nbin + 1] THEN nbin
    ELSE Digitize(x, edges, nbin)

\* dist.T of np.histogram2d as counts; count[j][i] is dependent bin j and
\* independent bin i.  The stored density is count / total with the empty
\* cells masked.
Dist2d(self, xedges, yedges, nbin) ==
    LET cnt(j, i) == Cardinality({s \in 1..Len(self.ind) :
                        /\ HistBin(self.ind[s], xedges, nbin) = i
                        /\ HistBin(self.dep[s], yedges, nbin) = j})
        count == [j \in 1..nbin |-> [i \in 1..nbin |-> cnt(j, i)]]
    IN  [count |-> count,
         total |-> SumF([s \in 1..Len(self.ind) |->
                          IF /\ HistBin(self.ind[s], xedges, nbin) # 0
                             /\ HistBin(self.dep[s], yedges, nbin) # 0
                          THEN 1 ELSE 0], 1..Len(self.ind))]

\* The dependent samples whose independent sample falls in bin i.
BinMembers(self, xedges, nbin, i) ==
    {s \in 1..Len(self.ind) : WhichBin(self.ind[s], xedges, nbin) = i}

\* Mean of the bin as the fraction num / den; 0 for an empty bin.
BinMean(self, members) ==
    IF members = {} THEN [num |-> 0, den |-> 1]
    ELSE [num |-> SumF(self.dep, members), den |-> Cardinality(members)]

\* Standard deviation of the bin, kept as its square num / den.
BinStd(self, members) ==
    IF members = {} THEN [num |-> 0, den |-> 1]
    ELSE LET n == Cardinality(members)
             s1 == SumF(self.dep, members)
             s2 == SumF([s \in members |-> self.dep[s] * self.dep[s]], members)
         IN  [num |-> n * s2 - s1 * s1, den |-> n * n]

\* (cnt / cnt.sum()) < eps
BinMasked(self, members, eps) ==
    Cardinality(members) * eps.den < eps.num * Len(self.ind)

\* self.build_response(nbin, eps): the outcome and the object after it.
\* Without limits the call compute_limits(dep_lim=..., ind_lim=...) names
\* parameters that compute_limits does not have; a log-scaled axis reads
\* self.ind_limits or self.dep_limits, which the class does not have.
build_response(self, nbin, eps) ==
    IF self.dep_limits = None \/ self.ind_limits = None
    THEN [raised |-> "TypeError", self |-> self]
    ELSE IF self.ind_log \/ self.dep_log
    THEN [raised |-> "AttributeError", self |-> self]
    ELSE LET xedges == Edges(self.ind_limits, nbin)
             yedges == Edges(self.dep_limits, nbin)
             members(i) == BinMembers(self, xedges, nbin, i)
         IN  [raised |-> "",
              self |-> [self EXCEPT
                 !.dist2d = Dist2d(self, xedges, yedges, nbin),
                 !.ind_edges = [nbin |-> nbin, edges |-> xedges],
                 !.dep_edges = [nbin |-> nbin, edges |-> yedges],
                 !.response_mean =
                     [data |-> [i \in 1..nbin |-> BinMean(self, members(i))],
                      mask |-> [i \in 1..nbin |->
                                  BinMasked(self, members(i), eps)]],
                 !.response_std =
                     [data |-> [i \in 1..nbin |-> BinStd(self, members(i))],
                      mask |-> [i \in 1..nbin |->
                                  BinMasked(self, members(i), eps)]]]]

\* Whether the data of self._response_mean - rel._response_mean is zero in
\* bin i: where either operand is masked the result keeps the data of self.
DiffIsZero(a, b, i) ==
    IF a.mask[i] \/ b.mask[i] THEN a.data[i].num = 0
    ELSE a.data[i].num * b.data[i].den = b.data[i].num * a.data[i].den

\* np.exp(-norm(self - rel) / norm(self)) by its case; np.linalg.norm reads
\* the data of a masked array and not its mask.
\*   "nan"      0 / 0
\*   "zero"     exp(-inf), the norm of self being 0
\*   "one"      exp(-0)
\*   "between"  a value strictly between 0 and 1
ScoreCase(a, b) ==
    LET bins == 1..Len(a.data)
        diffZero == \A i \in bins : DiffIsZero(a, b, i)
        selfZero == \A i \in bins : a.data[i].num = 0
    IN  IF selfZero THEN (IF diffZero THEN "nan" ELSE "zero")
        ELSE IF diffZero THEN "one" ELSE "between"

\* self.score_response(rel)
score_response(self, rel) ==
    IF self.response_mean = None \/ rel.response_mean = None
    THEN [raised |-> "TypeError", score |-> "none"]
    ELSE [raised |-> "",
          score |-> ScoreCase(self.response_mean, rel.response_mean)]

\* ref and com hold the two Relationship objects; dsa holds the arguments
\* of the last call and outa its outcome.
InitRel ==
    /\ Seeded
    /\ pc = "start"
    /\ ref \in FirstRelationships
    /\ com \in {r \in SecondRelationships : PostInitOk(r)}
    /\ dsa = None
    /\ dsb = None
    /\ outa = None
    /\ outb = None
    /\ NoArgs

\* ref.compute_limits(com) or ref.compute_limits()
ComputeLimitsRef ==
    \E withRel \in BOOLEAN :
        LET r == compute_limits(ref, IF withRel THEN com ELSE None)
        IN  /\ ref' = r[1]
            /\ com' = IF withRel THEN r[2] ELSE com
            /\ dsa' = [self |-> "ref", rel |-> IF withRel THEN "com" ELSE "None"]
            /\ outa' = [raised |-> ""]
            /\ pc' = "compute_limits"
            /\ UNCHANGED <<dsb, outb, res>>
            /\ UNCHANGED registry

\* com.compute_limits(ref) or com.compute_limits()
ComputeLimitsCom ==
    \E withRel \in BOOLEAN :
        LET r == compute_limits(com, IF withRel THEN ref ELSE None)
        IN  /\ com' = r[1]
            /\ ref' = IF withRel THEN r[2] ELSE ref
            /\ dsa' = [self |-> "com", rel |-> IF withRel THEN "ref" ELSE "None"]
            /\ outa' = [raised |-> ""]
            /\ pc' = "compute_limits"
            /\ UNCHANGED <<dsb, outb, res>>
            /\ UNCHANGED registry

\* ref.build_response(nbin, eps)
BuildResponseRef ==
    \E eps \in EpsChoices :
        LET r == build_response(ref, NBin, eps)
        IN  /\ ref' = r.self
            /\ dsa' = [self |-> "ref", nbin |-> NBin, eps |-> eps]
            /\ outa' = [raised |-> r.raised]
            /\ pc' = "build_response"
            /\ UNCHANGED <<com, dsb, outb, res>>
            /\ UNCHANGED registry

\* com.build_response(nbin, eps)
BuildResponseCom ==
    \E eps \in EpsChoices :
        LET r == build_response(com, NBin, eps)
        IN  /\ com' = r.self
            /\ dsa' = [self |-> "com", nbin |-> NBin, eps |-> eps]
            /\ outa' = [raised |-> r.raised]
            /\ pc' = "build_response"
            /\ UNCHANGED <<ref, dsb, outb, res>>
            /\ UNCHANGED registry

\* x.score_response(y) for x and y among ref and com
ScoreResponse ==
    \E s \in {"ref", "com"}, r \in {"ref", "com"} :
        /\ outa' = score_response(IF s = "ref" THEN ref ELSE com,
                                  IF r = "ref" THEN ref ELSE com)
        /\ dsa' = [self |-> s, rel |-> r]
        /\ pc' = "score_response"
        /\ UNCHANGED <<ref, com, dsb, outb, res>>
        /\ UNCHANGED registry

NextRel ==
    \/ ComputeLimitsRef
    \/ ComputeLimitsCom
    \/ BuildResponseRef
    \/ BuildResponseCom
    \/ ScoreResponse

SpecRel == InitRel /\ [][NextRel]_vars

\* The limits _singlelimit gives a variable on its own.
OwnLimit(var) == singlelimit(var, None)

\* No sample of var lies outside lim.
Covers(lim, var) ==
    \A s \in 1..Len(var) :
        /\ lim.lo <= var[s] * LimitScale
        /\ var[s] * LimitScale <= lim.hi

\* C9: after a.compute_limits(b), a and b hold the same dependent and
\* independent limits, each the union of the two Relationships' own limits
\* (min of the padded minima, max of the padded maxima), so no sample of a
\* or of b lies outside the shared limits.
C9_PooledLimits ==
    (pc = "compute_limits" /\ dsa.rel # "None")
        => /\ ref.dep_limits = com.dep_limits
           /\ ref.ind_limits = com.ind_limits
           /\ ref.dep_limits.lo = Min2(OwnLimit(ref.dep).lo, OwnLimit(com.dep).lo)
           /\ ref.dep_limits.hi = Max2(OwnLimit(ref.dep).hi, OwnLimit(com.dep).hi)
           /\ ref.ind_limits.lo = Min2(OwnLimit(ref.ind).lo, OwnLimit(com.ind).lo)
           /\ ref.ind_limits.hi = Max2(OwnLimit(ref.ind).hi, OwnLimit(com.ind).hi)
           /\ Covers(ref.dep_limits, ref.dep)
           /\ Covers(ref.dep_limits, com.dep)
           /\ Covers(ref.ind_limits, ref.ind)
           /\ Covers(ref.ind_limits, com.ind)

\* Both responses are built on the same bin edges.
IdenticalBinning ==
    /\ ref.ind_edges # None
    /\ ref.ind_edges = com.ind_edges

\* C10: for two Relationships with built responses on identical binning
\* score_response returns a value in (0, 1], and a Relationship scored
\* against itself returns exactly 1.
C10_ScoreBounds ==
    (pc = "score_response" /\ outa.raised = "" /\ IdenticalBinning)
        => /\ outa.score \in {"one", "between"}
           /\ (dsa.self = dsa.rel => outa.score = "one")

\* The Relationship the last call was made on.
CalledOn == IF dsa.self = "ref" THEN ref ELSE com

\* C18: build_response on a Relationship whose limits have not yet been
\* computed computes them itself and completes, and build_response after
\* compute_limits, a log-scaled axis included, completes: either way the
\* limits, _dist2d, the bin edges and the response mean and std are set.
C18_ResponseCompletes ==
    pc = "build_response"
        => /\ outa.raised = ""
           /\ CalledOn.dep_limits # None
           /\ CalledOn.ind_limits # None
           /\ CalledOn.dist2d # None
           /\ CalledOn.ind_edges # None
           /\ CalledOn.dep_edges # None
           /\ CalledOn.response_mean # None
           /\ CalledOn.response_std # None

\* ---------------------------------------------------------------------
\* integrate_space of dataset.py, on the datasets of the coarsening family.
\* region is "None" when the argument is left out.
\* ---------------------------------------------------------------------
\* var.weighted(msr).sum(dim=space) at step t: NaN cells are skipped.
WeightedSum(ds, msr, t) ==
    LET valid == {c \in (1..Len(ds.lat)) \X (1..Len(ds.lon)) :
                    ~ds.val[t][c[1]][c[2]].nan}
    IN  SumF([c \in valid |-> ds.val[t][c[1]][c[2]].v * msr[c[1]][c[2]]], valid)

\* The sum of the weights of the cells that hold a number at step t.
SumOfWeights(ds, msr, t) ==
    LET valid == {c \in (1..Len(ds.lat)) \X (1..Len(ds.lon)) :
                    ~ds.val[t][c[1]][c[2]].nan}
    IN  SumF([c \in valid |-> msr[c[1]][c[2]]], valid)

\* var.weighted(msr).mean(dim=space) at step t as num / den: NaN where the
\* sum of weights is 0.
WeightedMean(ds, msr, t) ==
    IF SumOfWeights(ds, msr, t) = 0 THEN [nan |-> TRUE, num |-> 0, den |-> 1]
    ELSE [nan |-> FALSE, num |-> WeightedSum(ds, msr, t),
          den |-> SumOfWeights(ds, msr, t)]

\* integrate_space(dset, varname, region, mean).  With a region the call
\* regions.restrict_to_region(dset, region) comes first, and class Regions
\* has no attribute of that name.
integrate_space(ds, region, mean) ==
    IF region # "None"
    THEN [raised |-> "AttributeError", out |-> <<>>]
    ELSE LET msr == FineMeasures(ds)
         IN  [raised |-> "",
              out |-> [t \in TimeSteps |->
                         IF mean THEN WeightedMean(ds, msr, t)
                         ELSE [nan |-> FALSE, num |-> WeightedSum(ds, msr, t),
                               den |-> 1]]]

\* integrate_space(dsa, "v", region, mean); dsb holds the arguments.
IntegrateSpace ==
    /\ pc = "start"
    /\ \E region \in {"None", "global", "nonexistent"}, mean \in BOOLEAN :
          /\ dsb' = [region |-> region, mean |-> mean]
          /\ outa' = integrate_space(dsa, region, mean)
    /\ pc' = "integrate_space"
    /\ UNCHANGED <<dsa, ref, com, outb, res>>
    /\ UNCHANGED registry

NextIntegrate == IntegrateSpace

SpecIntegrate == InitCoarsen /\ [][NextIntegrate]_vars

\* The cells of ds inside the box region rdata; coordinates of ds are in
\* half degrees, those of the box in 1/1000 degree.
InRegion(ds, rdata) ==
    {c \in (1..Len(ds.lat)) \X (1..Len(ds.lon)) :
        /\ ds.lat[c[1]] * (MilliPerDegree \div 2) >= rdata.lats[1]
        /\ ds.lat[c[1]] * (MilliPerDegree \div 2) <= rdata.lats[2]
        /\ ds.lon[c[2]] * (MilliPerDegree \div 2) >= rdata.lons[1]
        /\ ds.lon[c[2]] * (MilliPerDegree \div 2) <= rdata.lons[2]}

\* ds with the cells outside the region set to NaN.
MaskedTo(ds, rdata) ==
    [ds EXCEPT !.val = [t \in TimeSteps |-> [i \in 1..Len(ds.lat) |->
        [j \in 1..Len(ds.lon) |->
            IF <<i, j>> \in InRegion(ds, rdata) THEN ds.val[t][i][j]
            ELSE NaNValue]]]]

\* C11: integrate_space with a registered region label returns, at every
\* step, the weighted sum (or, with mean=True, the weighted mean) over the
\* valid cells inside the region only.
C11_RegionIntegral ==
    (pc = "integrate_space" /\ dsb.region \in DOMAIN regions)
        => /\ outa.raised = ""
           /\ \A t \in TimeSteps :
                LET m == MaskedTo(dsa, regions[dsb.region])
                    msr == FineMeasures(dsa)
                IN  outa.out[t] =
                        IF dsb.mean THEN WeightedMean(m, msr, t)
                        ELSE [nan |-> FALSE, num |-> WeightedSum(m, msr, t),
                              den |-> 1]

\* ---------------------------------------------------------------------
\* get_dim_name of dataset.py
\* ---------------------------------------------------------------------
\* The alias table of get_dim_name.
dim_names ==
    [time |-> {"time"},
     lat |-> {"lat", "latitude", "Latitude", "y"},
     lon |-> {"lon", "longitude", "Longitude", "x"},
     depth |-> {"depth"}]

\* Dimension names a dataset may carry.
DimUniverse == {"time", "lat", "latitude", "y", "lon", "x", "depth", "lev"}

\* get_dim_name(dset, dim) for a dataset with dimensions dims: the name, or
\* the KeyError raised; a dim that is not in the table fails the lookup
\* dim_names[dim] with the key as message.
get_dim_name(dims, dim) ==
    IF dim \notin DOMAIN dim_names
    THEN [raised |-> "KeyError", msg |-> dim, name |-> ""]
    ELSE LET dim_name == dims \cap dim_names[dim]
         IN  IF Cardinality(dim_name) # 1
             THEN [raised |-> "KeyError", msg |-> "dimension not found",
                   name |-> ""]
             ELSE [raised |-> "", msg |-> "",
                   name |-> CHOOSE n \in dim_name : TRUE]

\* dsa is a dataset given by its dimension names.
InitDims ==
    /\ Seeded
    /\ pc = "start"
    /\ dsa \in [dims : SUBSET DimUniverse]
    /\ dsb = None
    /\ ref = None
    /\ com = None
    /\ outa = None
    /\ outb = None
    /\ NoArgs

\* get_dim_name(dsa, dim); dsb holds the argument dim.
GetDimName ==
    /\ pc = "start"
    /\ \E dim \in {"time", "lat", "lon", "depth", "height"} :
          /\ dsb' = [dim |-> dim]
          /\ outa' = get_dim_name(dsa.dims, dim)
    /\ pc' = "get_dim_name"
    /\ UNCHANGED <<dsa, ref, com, outb, res>>
    /\ UNCHANGED registry

NextDims == GetDimName

SpecDims == InitDims /\ [][NextDims]_vars

\* The dimensions of dsa that are aliases of the requested axis.
Matches == dsa.dims \cap dim_names[dsb.dim]

\* C12: get_dim_name returns the axis name on exactly one match, fails
\* with "not found" on no match, and fails with a distinct "ambiguous"
\* error on more than one match.
C12_AxisOutcomes ==
    (pc = "get_dim_name" /\ dsb.dim \in DOMAIN dim_names)
        => /\ Cardinality(Matches) = 1
                => outa.raised = "" /\ outa.name \in Matches
           /\ Cardinality(Matches) = 0
                => outa.raised = "KeyError" /\ outa.msg = "dimension not found"
           /\ Cardinality(Matches) > 1
                => outa.raised # "" /\ outa.msg # "dimension not found"

\* The distinct latitude breaks of the two arguments of the nesting.
LatBreaksA == ReturnBreaks(dsa.lat, dsa.latb)
LatBreaksB == ReturnBreaks(dsb.lat, dsb.latb)

\* lo and hi are consecutive in the set U.
Consecutive(U, lo, hi) ==
    /\ lo \in U /\ hi \in U /\ lo < hi
    /\ \A x \in U : ~(lo < x /\ x < hi)

\* C13: nesting two fields with N1 and N2 distinct latitude breaks gives a
\* union of at most N1 + N2 breaks and a nested grid of at least
\* max(N1, N2) - 1 latitude centroids, one per pair of consecutive union
\* breaks and each the midpoint of its pair.
C13_UnionGridBound ==
    pc = "nest"
        => LET U == LatBreaksA \cup LatBreaksB
               N1 == Cardinality(LatBreaksA)
               N2 == Cardinality(LatBreaksB)
           IN  /\ Cardinality(U) <= N1 + N2
               /\ Len(outa.lat) = Cardinality(U) - 1
               /\ Len(outa.lat) >= Max2(N1, N2) - 1
               /\ outb.lat = outa.lat
               /\ \A i \in 1..Len(outa.lat) :
                    \E lo \in U, hi \in U :
                        /\ Consecutive(U, lo, hi)
                        /\ 2 * outa.lat[i] = lo + hi
                        /\ Cardinality({x \in U : x < hi}) = i

\* C13 witness: the second field has more breaks than the first, the two
\* share some breaks and each has breaks the other lacks.
C13_Witness ==
    /\ pc = "nest"
    /\ Cardinality(LatBreaksA) < Cardinality(LatBreaksB)
    /\ LatBreaksA \cap LatBreaksB # {}
    /\ LatBreaksA \ LatBreaksB # {}
    /\ LatBreaksB \ LatBreaksA # {}
    /\ Len(outa.lat) > Cardinality(LatBreaksB) - 1
    /\ Len(outa.lat) < Cardinality(LatBreaksA) + Cardinality(LatBreaksB) - 1

\* C14: in the output of coarsen_dataset a coarse cell is non-NaN at a step
\* if and only if at least one of its contributing fine cells holds valid
\* data at that step.
C14_CoarseValidity ==
    pc = "coarsen"
        => \A q \in CoarseCells(outa) :
              ~outa.val[q[1]][q[2]][q[3]].nan
                  <=> ValidAt(dsa, FinePerCoarse(dsa, res), q[1], q[2], q[3]) # {}

\* C15: a call leaves the datasets passed in by the caller unchanged: no
\* coordinate, bound array or data variable of an input is modified and no
\* measure is left attached to it.
C15_InputsUnchanged == [][dsa' = dsa /\ dsb' = dsb]_vars

\* ---------------------------------------------------------------------
\* compute_cell_measures and compute_time_measures of dataset.py on
\* coordinates and bound pairs in either storage order.  Latitudes and
\* longitudes are in half degrees, times in days.
\* ---------------------------------------------------------------------
\* Longest coordinate array of a dataset whose measures are computed.
MaxAxis == 3

\* The sequence s back to front.
Reverse(s) == [i \in 1..Len(s) |-> s[Len(s) + 1 - i]]

\* An axis in its storage variants: ascending or descending coordinates,
\* and no bound array, pairs stored (lower, upper) or pairs stored
\* (upper, lower).
AxisVariants(x, d) ==
    LET cells == CentredCells(x, d)
        flipped == [i \in 1..Len(x) |-> <<cells[i][2], cells[i][1]>>]
    IN  {[x |-> x, b |-> <<>>], [x |-> x, b |-> cells], [x |-> x, b |-> flipped],
         [x |-> Reverse(x), b |-> <<>>], [x |-> Reverse(x), b |-> Reverse(cells)],
         [x |-> Reverse(x), b |-> Reverse(flipped)]}

MeasureLatAxes ==
    UNION {AxisVariants(UniformAxis(FirstLat, FineSpacing, n), FineSpacing) :
             n \in 2..MaxAxis}

MeasureLonAxis == [x |-> UniformAxis(12, FineSpacing, 2), b |-> <<>>]

\* Time axes of 1..MaxAxis steps, 2 days apart.
MeasureTimeAxes == UNION {AxisVariants(UniformAxis(0, 2, n), 2) : n \in 1..MaxAxis}

\* compute_cell_measures on the bounds path: diff of sin(lat bounds) times
\* diff of the lon bounds, each taken along the pair as stored.
compute_cell_measures_bounds(latb, lonb) ==
    [i \in 1..Len(latb) |-> [j \in 1..Len(lonb) |->
        (SinE4(latb[i][2]) - SinE4(latb[i][1])) * (lonb[j][2] - lonb[j][1])]]

\* compute_cell_measures: the bounds path when both axes have a bound
\* array, else the centroid path.
CellMeasures(ds) ==
    IF ds.latb # <<>> /\ ds.lonb # <<>>
    THEN compute_cell_measures_bounds(ds.latb, ds.lonb)
    ELSE compute_cell_measures(ds.lat, ds.lon)

\* _measure1d: 0.5 * (delt[:-1] + delt[1:]) of the differences padded with
\* their first and last entry.
Measure1d(time) ==
    LET n == Len(time)
        delt == [k \in 1..(n + 1) |->
                    IF k = 1 THEN time[2] - time[1]
                    ELSE IF k = n + 1 THEN time[n] - time[n - 1]
                    ELSE time[k] - time[k - 1]]
    IN  [i \in 1..n |-> (delt[i] + delt[i + 1]) \div 2]

\* compute_time_measures: the outcome and the measures in days.
compute_time_measures(time, timeb) ==
    IF timeb = <<>>
    THEN IF Len(time) = 1 THEN [raised |-> "ValueError", msr |-> <<>>]
         ELSE [raised |-> "", msr |-> Measure1d(time)]
    ELSE [raised |-> "",
          msr |-> [i \in 1..Len(timeb) |-> timeb[i][2] - timeb[i][1]]]

InitMeasures ==
    /\ Seeded
    /\ pc = "start"
    /\ \E la \in MeasureLatAxes, lo \in AxisVariants(MeasureLonAxis.x, FineSpacing),
          ti \in MeasureTimeAxes :
            dsa = [lat |-> la.x, latb |-> la.b, lon |-> lo.x, lonb |-> lo.b,
                   time |-> ti.x, timeb |-> ti.b]
    /\ dsb = None
    /\ ref = None
    /\ com = None
    /\ outa = None
    /\ outb = None
    /\ NoArgs

ComputeCellMeasures ==
    /\ pc = "start"
    /\ outa' = [raised |-> "", msr |-> CellMeasures(dsa)]
    /\ pc' = "compute_cell_measures"
    /\ UNCHANGED <<dsa, dsb, ref, com, outb, res>>
    /\ UNCHANGED registry

ComputeTimeMeasures ==
    /\ pc = "start"
    /\ outa' = compute_time_measures(dsa.time, dsa.timeb)
    /\ pc' = "compute_time_measures"
    /\ UNCHANGED <<dsa, dsb, ref, com, outb, res>>
    /\ UNCHANGED registry

NextMeasures == ComputeCellMeasures \/ ComputeTimeMeasures

SpecMeasures == InitMeasures /\ [][NextMeasures]_vars

\* C16: every weight returned by compute_cell_measures and by
\* compute_time_measures is >= 0, on the bounds path and on the centroid
\* path, whatever the storage order of the coordinates and of the bound
\* pairs.
C16_MeasuresNonNegative ==
    /\ pc = "compute_cell_measures"
          => \A i \in 1..Len(outa.msr) : \A j \in 1..Len(outa.msr[i]) :
                outa.msr[i][j] >= 0
    /\ (pc = "compute_time_measures" /\ outa.raised = "")
          => \A i \in 1..Len(outa.msr) : outa.msr[i] >= 0

\* ---------------------------------------------------------------------
\* is_spatially_aligned on coordinates in units of 1e-6 degree, fine
\* enough to tell the tolerance of np.allclose from an absolute one.
\* ---------------------------------------------------------------------
MicroPerDegree == 1000000

\* Most points per axis of the datasets compared.
MaxPts == 2

\* x with its first entry moved up by d.
ShiftFirst(x, d) == [i \in 1..Len(x) |-> IF i = 1 THEN x[i] + d ELSE x[i]]

\* Latitudes from the equator, the first moved up by 0 or 5e-6 degree.
AlignedLatAxes ==
    {ShiftFirst(SubSeq(<<0, 45000000, 60000000>>, 1, n), d) :
        n \in 1..MaxPts, d \in {0, 5}}

\* Longitudes from 299.998 degrees, the first moved up by 0, 5e-6 or 0.003
\* degree.
AlignedLonAxes ==
    {ShiftFirst(SubSeq(<<299998000, 320000000, 340000000>>, 1, n), d) :
        n \in 1..MaxPts, d \in {0, 5, 3000}}

AlignedDatasets == [lat : AlignedLatAxes, lon : AlignedLonAxes]

InitAligned ==
    /\ Seeded
    /\ pc = "start"
    /\ dsa \in AlignedDatasets
    /\ dsb \in AlignedDatasets
    /\ ref = None
    /\ com = None
    /\ outa = None
    /\ outb = None
    /\ NoArgs

\* is_spatially_aligned(dsa, dsb)
IsSpatiallyAligned ==
    /\ pc = "start"
    /\ outa' = [aligned |-> aligned_at(MicroPerDegree, dsa, dsb)]
    /\ pc' = "is_spatially_aligned"
    /\ UNCHANGED <<dsa, dsb, ref, com, outb, res>>
    /\ UNCHANGED registry

NextAligned == IsSpatiallyAligned

SpecAligned == InitAligned /\ [][NextAligned]_vars

SameCounts == Len(dsa.lat) = Len(dsb.lat) /\ Len(dsa.lon) = Len(dsb.lon)

\* Every pair of corresponding entries of x and y differs by at most 1e-5
\* degree.
WithinAbsolute(x, y) ==
    \A i \in 1..Len(x) : Abs(x[i] - y[i]) <= MicroPerDegree \div 100000

\* 1e8 * |x - y| <= 1e8 * atol + 1e8 * rtol * |y| in units of 1e-6 degree,
\* divided through by 1000: 1e5 * |x - y| <= 1000 + |y|; differences of
\* more than 0.01 degree are beyond any tolerance here.
WithinRelative(x, y) ==
    \A i \in 1..Len(x) :
        /\ Abs(x[i] - y[i]) <= 10000
        /\ 100000 * Abs(x[i] - y[i]) <= 1000 + Abs(y[i])

\* C17 (as stated): the result is true iff the counts match and every pair
\* of corresponding values differs by at most a fixed absolute tolerance of
\* 1e-5 degree; the result is the same for (a, b) and (b, a).
C17_AbsoluteTolerance ==
    pc = "is_spatially_aligned"
        => /\ outa.aligned <=> (/\ SameCounts
                                /\ WithinAbsolute(dsa.lat, dsb.lat)
                                /\ WithinAbsolute(dsa.lon, dsb.lon))
           /\ outa.aligned = aligned_at(MicroPerDegree, dsb, dsa)

\* C17 (amended): the result is true iff the counts match and every pair
\* of corresponding values satisfies |a - b| <= 1e-8 + 1e-5 * |b|, a
\* tolerance relative to the value of the second argument.
C17_RelativeTolerance ==
    pc = "is_spatially_aligned"
        => (outa.aligned <=> (/\ SameCounts
                              /\ WithinRelative(dsa.lat, dsb.lat)
                              /\ WithinRelative(dsa.lon, dsb.lon)))

\* C17 witness: longitudes 299.998 and 300.001 differ by 0.003 degree and
\* are aligned, while the same pair in the other order is not.
C17_Witness ==
    /\ pc = "is_spatially_aligned"
    /\ outa.aligned
    /\ dsa.lon[1] = 299998000 /\ dsb.lon[1] = 300001000
    /\ ~aligned_at(MicroPerDegree, dsb, dsa)

\* ---------------------------------------------------------------------
\* pick_grid_aligned on coordinates in units of 1e-6 degree: grids of 0.25
\* and 0.5 degree over one box, and longitude axes 0.003 degree apart near
\* 300 degrees, close enough for np.allclose in one order of the arguments.
\* ---------------------------------------------------------------------
\* Latitudes of a box of MaxPts half degrees at 0.5 and at 0.25 degree.
PickLatAxes ==
    {[x |-> UniformAxis(250000, 500000, MaxPts), b |-> <<>>],
     [x |-> UniformAxis(125000, 250000, 2 * MaxPts), b |-> <<>>]}

\* Longitudes of the same box at 0.5 and at 0.25 degree, and two 0.5 degree
\* axes from 299.998 and from 300.001 degrees.
PickLonAxes ==
    {[x |-> UniformAxis(250000, 500000, MaxPts), b |-> <<>>],
     [x |-> UniformAxis(125000, 250000, 2 * MaxPts), b |-> <<>>],
     [x |-> UniformAxis(299998000, 500000, MaxPts), b |-> <<>>],
     [x |-> UniformAxis(300001000, 500000, MaxPts), b |-> <<>>]}

PickDatasets == {GridDataset(la, lo) : <<la, lo>> \in PickLatAxes \X PickLonAxes}

\* Interpolated pairs a caller may hold from an earlier call.
PickCached ==
    {None} \cup
    {ds \in PickDatasets : Len(ds.lat) = MaxPts /\ ds.lon[1] >= 250000}

InitPick ==
    /\ Seeded
    /\ pc = "start"
    /\ dsa \in PickDatasets
    /\ dsb \in PickDatasets
    /\ ref \in PickCached
    /\ com \in PickCached
    /\ outa = None
    /\ outb = None
    /\ NoArgs

\* pick_grid_aligned(dsa, dsb, ref, com)
PickMicro ==
    /\ pc = "start"
    /\ LET r == pick_grid_at(MicroPerDegree, dsa, dsb, ref, com)
       IN  /\ outa' = r[1]
           /\ outb' = r[2]
    /\ pc' = "pick"
    /\ UNCHANGED <<dsa, dsb, ref, com, res>>
    /\ UNCHANGED registry

NextPick == PickMicro

SpecPick == InitPick /\ [][NextPick]_vars

\* Neither the raw pair nor the cached pair passes np.allclose, so the
\* pair returned comes from nest_spatial_grids.
BothPairsRejected ==
    /\ ~(/\ Len(dsa.lat) = Len(dsb.lat) /\ Len(dsa.lon) = Len(dsb.lon)
          /\ WithinRelative(dsa.lat, dsb.lat)
          /\ WithinRelative(dsa.lon, dsb.lon))
    /\ ~(/\ ref # None /\ com # None
          /\ Len(ref.lat) = Len(com.lat) /\ Len(ref.lon) = Len(com.lon)
          /\ WithinRelative(ref.lat, com.lat)
          /\ WithinRelative(ref.lon, com.lon))

\* C3 (as stated): the pair returned by pick_grid_aligned has equal lat
\* sizes, equal lon sizes and identical lat/lon coordinates, whatever the
\* raw pair and the cached pair.
C3_PickReturnsIdentical ==
    pc = "pick"
        => /\ Len(outa.lat) = Len(outb.lat) /\ Len(outa.lon) = Len(outb.lon)
           /\ outa.lat = outb.lat /\ outa.lon = outb.lon

\* C3 (amended): the pair returned by pick_grid_aligned has equal lat
\* sizes, equal lon sizes and lat/lon coordinates that agree within
\* |a - b| <= 1e-8 + 1e-5 * |b|, whatever the raw pair and the cached pair;
\* the coordinates are identical when neither pair passes and the raw pair
\* is nested, as for grids of 0.25 and 0.5 degree over one box.
C3_PickReturnsWithinTolerance ==
    pc = "pick"
        => /\ Len(outa.lat) = Len(outb.lat) /\ Len(outa.lon) = Len(outb.lon)
           /\ WithinRelative(outa.lat, outb.lat)
           /\ WithinRelative(outa.lon, outb.lon)
           /\ BothPairsRejected => (outa.lat = outb.lat /\ outa.lon = outb.lon)

\* C3 witness: a raw pair on one latitude axis with longitudes from 299.998
\* and from 300.001 degrees passed np.allclose and was returned as it is,
\* its longitudes 0.003 degree apart.
C3_Witness ==
    /\ pc = "pick"
    /\ outa = dsa /\ outb = dsb
    /\ outa.lat = outb.lat
    /\ outa.lon[1] = 299998000 /\ outb.lon[1] = 300001000

====
